---- MODULE Spec2Model ----
(***************************************************************************)
(* Model of DivisionAnalyzer (src/division_analyzer.py): the data          *)
(* preparation, calculate_team_metrics and the snake-draft                 *)
(* suggest_divisions, as a state machine over one call of each method.     *)
(*                                                                         *)
(* Conventions                                                             *)
(*  - a DataFrame is a sequence of rows, a row is a record;                *)
(*  - team names are opaque identifiers (positive integers), NaN is 0;     *)
(*  - Strength and the other rounded columns are fixed-point integers      *)
(*    (Strength, GPG, GAPG in hundredths, Win % in tenths);                *)
(*  - a Python dict is a record [keys, val]: the keys in insertion order   *)
(*    and the mapping;                                                     *)
(*  - None is the flag is_none of an optional value.                       *)
(***************************************************************************)
EXTENDS Integers, Sequences, FiniteSets, TLC

VARIABLES
    games,              \* self.games: the table read from the games CSV
    completed_games,    \* self.completed_games
    standings,          \* self.standings (optional)
    team_metrics,       \* argument team_metrics of suggest_divisions
    num_divisions,      \* argument num_divisions
    names_arg,          \* argument division_names (optional)
    pc,                 \* position in the run
    division_names,     \* local division_names: the label list in use
    teams,              \* local teams
    divisions,          \* local dict divisions
    division_strengths, \* local dict division_strengths
    division_order,     \* local division_order
    forward,            \* local forward
    result_df,          \* returned DataFrame
    outcome,            \* "running", "returned" or the exception raised
    calls,              \* number of suggest_divisions calls completed before this one
    prev,               \* what the previous call returned
    games_df,           \* argument games_df of calculate_team_metrics (optional)
    metrics,            \* local metrics of calculate_team_metrics, before the sort
    filter_args,        \* arguments of the last filter_games call
    filtered,           \* what the last filter_games call returned
    changes,            \* what compare_divisions returned
    compare_outcome,    \* "none", "returned" or the exception compare_divisions raised
    mapping_file,       \* the team mapping CSV on disk
    team_mapping,       \* GamesScraper.team_mapping
    page,               \* the rows of the games table of the fetched page
    data,               \* GamesScraper.data
    scrape_outcome,     \* "none", "returned" or the exception scrape raised
    scraper,            \* the class of the scraper object of the calls
    table,              \* the page its URL serves and the table on it
    ppc,                \* position in scrape() and parse_table / parse_standings
    th,                 \* place of the header cell the loop is at
    headers,            \* local headers
    header_text,        \* local header_text
    original_header,    \* local original_header
    counter,            \* local counter
    rows_data,          \* local rows_data (all_teams in parse_standings)
    written,            \* the files and database tables written
    call                \* the last call on the scraper and how it ended

vars == <<games, completed_games, standings, team_metrics, num_divisions,
          names_arg, pc, division_names, teams, divisions, division_strengths,
          division_order, forward, result_df, outcome, calls, prev,
          games_df, metrics, filter_args, filtered, changes, compare_outcome,
          mapping_file, team_mapping, page, data, scrape_outcome,
          scraper, table, ppc, th, headers, header_text, original_header,
          counter, rows_data, written, call>>

\* The state of calculate_team_metrics, filter_games and compare_divisions
metricsVars == <<games_df, metrics, filter_args, filtered, changes,
                 compare_outcome>>

\* The state of parse_table / parse_standings and of the calls on a scraper
tableVars == <<scraper, table, ppc, th, headers, header_text, original_header,
               counter, rows_data, written, call>>

\* The state of the games scraper, and of the other scrapers
scraperVars == <<mapping_file, team_mapping, page, data, scrape_outcome,
                 tableVars>>

\* The state of the analyzer
analyzerVars == <<games, completed_games, standings, team_metrics,
                  num_divisions, names_arg, pc, division_names, teams,
                  divisions, division_strengths, division_order, forward,
                  result_df, outcome, calls, prev>>

------------------------------------------------------------------------------
(* Bounds of the model *)

MaxTeams == 7
MaxLabels == 2
MaxNumDivisions == 9
MaxNegDivisions == 1
MaxGames == 2
MaxScore == 1
MaxGameTeams == 2
MaxRepeatTeams == 4
MaxFairTeams == 2

(* Program constant: the default of num_divisions *)
DefaultNumDivisions == 5

\* A missing team name (NaN); team names are 1, 2, ...
NaN == 0
\* A score that is NaN after pd.to_numeric(errors='coerce')
NoScore == 0 - 1
\* A raw score cell holding text that is not a number
NonNumeric == 0 - 2

Min(a, b) == IF a < b THEN a ELSE b
Max(a, b) == IF a > b THEN a ELSE b

------------------------------------------------------------------------------
(* Python and pandas helpers *)

DefaultNames == <<"A", "B", "C", "D", "E", "F", "G", "H">>

\* games_df=None, and a call that has not returned a table
NoTable == [is_none |-> TRUE, has_name_cols |-> FALSE, rows |-> <<>>]

\* filter_games not called
NoFilter == [called |-> FALSE, outcome |-> "none", start_date |-> 0,
             end_date |-> 0, min_date |-> 0, max_date |-> 0,
             exclude_dates |-> {}]

\* compare_divisions returned None, or was not called
NoChanges == [is_none |-> TRUE, rows |-> <<>>]

\* No mapping file on disk
NoFile == [state |-> "absent", rows |-> <<>>]

\* The empty dict
EmptyDict == [keys |-> <<>>, val |-> <<>>]

\* A page that cannot be fetched: requests.get or raise_for_status raises
NoPage == [fetched |-> FALSE, has_table |-> FALSE, rows |-> <<>>]

\* GamesScraper.data = None
NoData == [is_none |-> TRUE, has_name_cols |-> FALSE, rows |-> <<>>]

\* No scraper call is under way and none was made
NoHtml == [fetched |-> FALSE, has_table |-> FALSE, header |-> <<>>,
           rows |-> <<>>]

NoCall == [method |-> "none", outcome |-> "none"]

InitTable ==
    /\ scraper = "GamesScraper"
    /\ table = NoHtml
    /\ ppc = "idle"
    /\ th = 1
    /\ headers = <<>>
    /\ header_text = <<>>
    /\ original_header = <<>>
    /\ counter = 1
    /\ rows_data = <<>>
    /\ written = {}
    /\ call = NoCall

\* s[:n] of a Python list
PySliceTo(s, n) ==
    IF n >= 0 THEN SubSeq(s, 1, Min(n, Len(s)))
    ELSE SubSeq(s, 1, Max(Len(s) + n, 0))

\* reversed(s)
Reversed(s) == [i \in 1..Len(s) |-> s[Len(s) + 1 - i]]

\* The keys of {name: ... for name in names}: the first occurrences, in order
FirstOccurrences(names) ==
    {i \in 1..Len(names) : \A j \in 1..(i - 1) : names[j] # names[i]}

DictKeys(names) ==
    LET P == FirstOccurrences(names)
    IN [k \in 1..Cardinality(P) |->
          names[CHOOSE i \in P : Cardinality({j \in P : j <= i}) = k]]

SeqRange(s) == {s[i] : i \in 1..Len(s)}

NewDict(names, v) ==
    [keys |-> DictKeys(names), val |-> [n \in SeqRange(names) |-> v]]

------------------------------------------------------------------------------
(* suggest_divisions, src/division_analyzer.py lines 165-225 *)

\* Mutant: a supplied label list is cut to num_divisions labels as well
MutLabelsCut(arg, n) ==
    IF arg.is_none THEN PySliceTo(DefaultNames, n) ELSE PySliceTo(arg.value, n)

\* lines 177-178: the label list in use
LabelsInUse(arg, n) ==
    IF arg.is_none THEN PySliceTo(DefaultNames, n) ELSE arg.value

\* Mutant: the rows are taken in the opposite order
MutTeamsReversed(tm) == Reversed(tm)

\* line 181: teams = team_metrics.copy()   (no sort: the input order is kept)
TeamsCopy(tm) == tm

\* Mutant: the direction is kept from the call before
MutKeepForward(fwd) == fwd

\* line 189: the direction of the first pass
FirstForward(fwd) == TRUE

\* line 190: the condition of the while loop
WhileCond(order, tms) == Len(order) < Len(tms)

\* Mutant: every pass runs forward (round robin)
MutExtendRoundRobin(order, names, fwd) == order \o names

\* Mutant: a reverse pass does not repeat the label the forward pass ended on
MutExtendPingPong(order, names, fwd) ==
    IF fwd THEN order \o names
    ELSE order \o SubSeq(Reversed(names), 2, Len(names))

\* lines 191-194: one pass appended to division_order
ExtendOrder(order, names, fwd) ==
    IF fwd THEN order \o names ELSE order \o Reversed(names)

\* Mutant: = in place of +=
MutSetStrength(strs, div, row) == [strs EXCEPT ![div] = row.Strength]

\* line 203: division_strengths[div] += team_row['Strength']
AddStrength(strs, div, row) == [strs EXCEPT ![div] = @ + row.Strength]

\* Mutant: the loop breaks one row early
MutBreakCond(i, order) == i >= Len(order)

\* line 199: if i >= len(division_order): break   (i is 0-based there)
BreakCond(i, order) == i - 1 >= Len(order)

\* lines 198-203: the assignment loop, from the 1-based row i on
RECURSIVE AssignFrom(_, _, _, _, _)
AssignFrom(i, tms, order, divs, strs) ==
    IF i > Len(tms) \/ BreakCond(i, order)
    THEN [divisions |-> divs, division_strengths |-> strs]
    ELSE LET div == order[i]
         IN AssignFrom(i + 1, tms, order,
                       [divs EXCEPT !.val[div] = Append(@, tms[i])],
                       AddStrength(strs, div, tms[i]))

\* lines 206-210: the rows of the output, division by division
RECURSIVE ResultRows(_, _)
ResultRows(keys, val) ==
    IF keys = <<>> THEN <<>>
    ELSE LET d == keys[1]
             rows == val[d]
         IN [i \in 1..Len(rows) |-> [SuggestedDivision |-> d] @@ rows[i]]
            \o ResultRows(Tail(keys), val)

\* lines 217-221: the mapping from team name to current division (last row wins)
RECURSIVE CurrentDivMap(_)
CurrentDivMap(rows) ==
    IF rows = <<>> THEN [t \in {} |-> "NaN"]
    ELSE LET m == CurrentDivMap(SubSeq(rows, 1, Len(rows) - 1))
             r == rows[Len(rows)]
         IN IF r.Team # NaN THEN (r.Team :> r.Division) @@ m ELSE m

\* line 223: result_df['Current Division'] = result_df['Team'].map(current_div_map)
WithCurrentDivision(rows, m) ==
    [i \in 1..Len(rows) |->
        [CurrentDivision |-> IF rows[i].Team \in DOMAIN m THEN m[rows[i].Team]
                             ELSE "NaN"] @@ rows[i]]

\* lines 177-189: everything before the while loop
SuggestStart ==
    /\ pc = "suggest"
    /\ UNCHANGED <<metricsVars, scraperVars>>
    /\ LET names == LabelsInUse(names_arg, num_divisions)
       IN /\ division_names' = names
          /\ divisions' = NewDict(names, <<>>)
          /\ division_strengths' = [n \in SeqRange(names) |-> 0]
    /\ teams' = TeamsCopy(team_metrics)
    /\ division_order' = <<>>
    /\ forward' = FirstForward(forward)
    /\ pc' = "while"
    /\ UNCHANGED <<games, completed_games, standings, team_metrics,
                   num_divisions, names_arg, result_df, outcome, calls, prev>>

\* lines 190-195: one iteration of the while loop
BuildPass ==
    /\ pc = "while"
    /\ UNCHANGED <<metricsVars, scraperVars>>
    /\ WhileCond(division_order, teams)
    /\ division_order' = ExtendOrder(division_order, division_names, forward)
    /\ forward' = ~forward
    /\ UNCHANGED <<games, completed_games, standings, team_metrics,
                   num_divisions, names_arg, pc, division_names, teams,
                   divisions, division_strengths, result_df, outcome, calls,
                   prev>>

\* lines 197-203: the loop ends, the teams are assigned
AssignTeams ==
    /\ pc = "while"
    /\ UNCHANGED <<metricsVars, scraperVars>>
    /\ ~WhileCond(division_order, teams)
    /\ LET r == AssignFrom(1, teams, division_order, divisions,
                           division_strengths)
       IN /\ divisions' = r.divisions
          /\ division_strengths' = r.division_strengths
    /\ pc' = "result"
    /\ UNCHANGED <<games, completed_games, standings, team_metrics,
                   num_divisions, names_arg, division_names, teams,
                   division_order, forward, result_df, outcome, calls, prev>>

\* lines 205-225: the output table, the current divisions, the return.
\* An empty DataFrame has no column: result_df['Team'] raises KeyError.
BuildResult ==
    /\ pc = "result"
    /\ UNCHANGED <<metricsVars, scraperVars>>
    /\ LET rows == ResultRows(divisions.keys, divisions.val)
           join == ~standings.is_none /\ standings.has_division
       IN IF join /\ rows = <<>>
          THEN /\ result_df' = <<>>
               /\ outcome' = "KeyError"
          ELSE /\ result_df' =
                    IF join
                    THEN WithCurrentDivision(rows, CurrentDivMap(standings.rows))
                    ELSE rows
               /\ outcome' = "returned"
    /\ pc' = "done"
    /\ UNCHANGED <<games, completed_games, standings, team_metrics,
                   num_divisions, names_arg, division_names, teams, divisions,
                   division_strengths, division_order, forward, calls, prev>>

------------------------------------------------------------------------------
(* compare_divisions, src/division_analyzer.py lines 288-308 *)

\* The columns of a table; pd.DataFrame([]) has none
Columns(df) == IF df = <<>> THEN {} ELSE DOMAIN df[1]

\* Mutant: the comparison is made whatever the columns are
MutAlwaysCompares(df) == TRUE

\* line 298: 'Current Division' in division_assignments.columns
HasCurrentDivision(df) == "CurrentDivision" \in Columns(df)

\* line 306: the columns of the returned table
ChangeColumns ==
    {"Team", "CurrentDivision", "SuggestedDivision", "Strength", "WinPct",
     "Points"}

\* Mutant: == in place of !=
MutUnchangedRows(df) ==
    LET ch == SelectSeq(df, LAMBDA r : r.CurrentDivision = r.SuggestedDivision)
    IN [i \in 1..Len(ch) |-> [c \in ChangeColumns |-> ch[i][c]]]

\* lines 302-306: the teams whose division changes (NaN differs from every
\* label), with the columns of the report
ChangedRows(df) ==
    LET ch == SelectSeq(df, LAMBDA r : r.CurrentDivision # r.SuggestedDivision)
    IN [i \in 1..Len(ch) |-> [c \in ChangeColumns |-> ch[i][c]]]

\* lines 288-308: compare_divisions(division_assignments) on the table
\* suggest_divisions returned (line 362)
CompareDivisions ==
    /\ pc = "done"
    /\ outcome = "returned"
    /\ compare_outcome = "none"
    /\ IF ~HasCurrentDivision(result_df)
       THEN /\ changes' = NoChanges
            /\ compare_outcome' = "returned"
       ELSE IF ChangeColumns \subseteq Columns(result_df)
            THEN /\ changes' = [is_none |-> FALSE,
                                rows |-> ChangedRows(result_df)]
                 /\ compare_outcome' = "returned"
            ELSE /\ changes' = NoChanges
                 /\ compare_outcome' = "KeyError"
    /\ UNCHANGED <<games_df, metrics, filter_args, filtered, scraperVars>>
    /\ UNCHANGED <<games, completed_games, standings, team_metrics,
                   num_divisions, names_arg, pc, division_names, teams,
                   divisions, division_strengths, division_order, forward,
                   result_df, outcome, calls, prev>>

------------------------------------------------------------------------------
(* _prepare_data and calculate_team_metrics, lines 27-39 and 70-163 *)

\* lines 30-31: pd.to_numeric(..., errors='coerce') of one cell
ToNumeric(cell) == IF cell >= 0 THEN cell ELSE NoScore

\* lines 30-39: the completed games, with their score differential
PrepareRows(rows) ==
    LET num == [i \in 1..Len(rows) |->
                  [rows[i] EXCEPT !.AwayScore = ToNumeric(@),
                                  !.HomeScore = ToNumeric(@)]]
        done == SelectSeq(num, LAMBDA r : r.AwayScore # NoScore
                                          /\ r.HomeScore # NoScore)
    IN [i \in 1..Len(done) |->
          [ScoreDifferential |-> done[i].HomeScore - done[i].AwayScore]
             @@ done[i]]

\* lines 87-95: the team names, from the name columns when they exist and
\* hold a name, otherwise from the raw team columns
AllTeams(df) ==
    LET named == IF df.has_name_cols
                 THEN {df.rows[i].AwayTeamName : i \in 1..Len(df.rows)}
                        \cup {df.rows[i].HomeTeamName : i \in 1..Len(df.rows)}
                 ELSE {}
        raw == {df.rows[i].AwayTeam : i \in 1..Len(df.rows)}
                 \cup {df.rows[i].HomeTeam : i \in 1..Len(df.rows)}
    IN IF named \ {NaN} # {} THEN named \ {NaN} ELSE raw \ {NaN}

\* lines 99-104: the games of a team as away side and as home side
AwayGames(df, team) ==
    SelectSeq(df.rows, LAMBDA r :
        IF df.has_name_cols THEN r.AwayTeamName = team ELSE r.AwayTeam = team)

HomeGames(df, team) ==
    SelectSeq(df.rows, LAMBDA r :
        IF df.has_name_cols THEN r.HomeTeamName = team ELSE r.HomeTeam = team)

\* Series.sum(): NaN cells are skipped
RECURSIVE SumScores(_, _)
SumScores(rows, col) ==
    IF rows = <<>> THEN 0
    ELSE (IF rows[1][col] = NoScore THEN 0 ELSE rows[1][col])
           + SumScores(Tail(rows), col)

\* Mutant: a drawn game counts as well
MutCountGreaterOrEqual(rows, a, b) ==
    Cardinality({i \in 1..Len(rows) :
        /\ rows[i][a] # NoScore /\ rows[i][b] # NoScore
        /\ rows[i][a] >= rows[i][b]})

\* (a > b).sum(): a comparison with NaN is False
CountGreater(rows, a, b) ==
    Cardinality({i \in 1..Len(rows) :
        /\ rows[i][a] # NoScore /\ rows[i][b] # NoScore
        /\ rows[i][a] > rows[i][b]})

\* round(num / den, digits), as the integer nearest to num / den (den > 0),
\* a tie going to the even neighbour
RoundDiv(num, den) ==
    LET q == num \div den
        r == num - q * den
    IN IF 2 * r < den THEN q
       ELSE IF 2 * r > den THEN q + 1
       ELSE IF q % 2 = 0 THEN q ELSE q + 1

\* Mutant: the strength is cut to two digits, not rounded
MutStrengthTruncated(wins, goal_diff, games_played) ==
    ((100 * wins + goal_diff) * 100) \div games_played

\* line 141 and 157: strength, in hundredths
StrengthOf(wins, goal_diff, games_played) ==
    RoundDiv((100 * wins + goal_diff) * 100, games_played)

\* lines 106-158: the metrics row of one team (games_played > 0)
TeamMetric(df, team) ==
    LET away_games == AwayGames(df, team)
        home_games == HomeGames(df, team)
        games_played == Len(away_games) + Len(home_games)
        goals_for == SumScores(away_games, "AwayScore")
                       + SumScores(home_games, "HomeScore")
        goals_against == SumScores(away_games, "HomeScore")
                           + SumScores(home_games, "AwayScore")
        wins == CountGreater(away_games, "AwayScore", "HomeScore")
                  + CountGreater(home_games, "HomeScore", "AwayScore")
        losses == CountGreater(away_games, "HomeScore", "AwayScore")
                    + CountGreater(home_games, "AwayScore", "HomeScore")
        ties == games_played - wins - losses
        goal_diff == goals_for - goals_against
    IN [Team |-> team, GP |-> games_played, W |-> wins, L |-> losses,
        T |-> ties, Points |-> wins * 2 + ties * 1,
        WinPct |-> RoundDiv(1000 * wins, games_played),
        GF |-> goals_for, GA |-> goals_against, GD |-> goal_diff,
        GPG |-> RoundDiv(100 * goals_for, games_played),
        GAPG |-> RoundDiv(100 * goals_against, games_played),
        Strength |-> StrengthOf(wins, goal_diff, games_played)]

\* lines 107-110: the teams that get a row
RankedTeams(df) ==
    {t \in AllTeams(df) : Len(AwayGames(df, t)) + Len(HomeGames(df, t)) > 0}

\* lines 30-31: the score columns of self.games after pd.to_numeric
CoercedRows(rows) ==
    [i \in 1..Len(rows) |->
       [rows[i] EXCEPT !.AwayScore = ToNumeric(@),
                       !.HomeScore = ToNumeric(@)]]

\* lines 27-39: __init__ prepares the data
PrepareData ==
    /\ pc = "prepare"
    /\ UNCHANGED <<metricsVars, scraperVars>>
    /\ games' = [games EXCEPT !.rows = CoercedRows(games.rows)]
    /\ completed_games' = [has_name_cols |-> games.has_name_cols,
                           rows |-> PrepareRows(games.rows)]
    /\ pc' = "metrics"
    /\ UNCHANGED <<standings, team_metrics, num_divisions, names_arg,
                   division_names, teams, divisions, division_strengths,
                   division_order, forward, result_df, outcome, calls, prev>>

\* A table passed as games_df
AsArg(df) ==
    [is_none |-> FALSE, has_name_cols |-> df.has_name_cols, rows |-> df.rows]

\* lines 80-81: the table the metrics are computed on
TableOf(arg) ==
    IF arg.is_none THEN completed_games
    ELSE [has_name_cols |-> arg.has_name_cols, rows |-> arg.rows]

\* lines 97-158: the list metrics, one row per team with a game, in the
\* iteration order of the set all_teams (any order)
MetricLists(df) ==
    LET T == RankedTeams(df)
        n == Cardinality(T)
    IN {[i \in 1..n |-> TeamMetric(df, order[i])] :
          order \in {o \in [1..n -> T] :
                       \A i, j \in 1..n : o[i] = o[j] => i = j}}

\* line 161: sort_values('Strength', ascending=False) with the default
\* kind='quicksort', which is not stable: the rows in any order of
\* non-increasing Strength
SortValues(rows) ==
    LET n == Len(rows)
    IN {[i \in 1..n |-> rows[o[i]]] :
          o \in {q \in [1..n -> 1..n] :
                   /\ \A i, j \in 1..n : q[i] = q[j] => i = j
                   /\ \A i \in 1..(n - 1) :
                         rows[q[i]].Strength >= rows[q[i + 1]].Strength}}

\* lines 70-163: calculate_team_metrics(games_df=arg). With no row,
\* pd.DataFrame([]) has no column and sort_values('Strength') raises KeyError.
CalcMetrics(arg) ==
    /\ pc = "metrics"
    /\ UNCHANGED <<filter_args, filtered, changes, compare_outcome,
                   scraperVars>>
    /\ games_df' = arg
    /\ metrics' \in MetricLists(TableOf(arg))
    /\ IF metrics' = <<>>
       THEN /\ outcome' = "KeyError"
            /\ pc' = "done"
            /\ UNCHANGED team_metrics
       ELSE /\ team_metrics' \in SortValues(metrics')
            /\ pc' = "suggest"
            /\ UNCHANGED outcome
    /\ UNCHANGED <<games, completed_games, standings, num_divisions,
                   names_arg, division_names, teams, divisions,
                   division_strengths, division_order, forward, result_df,
                   calls, prev>>

\* line 337: main() calls calculate_team_metrics() with no argument; its
\* table is then passed to suggest_divisions (line 349)
CalculateTeamMetrics == CalcMetrics(NoTable)

\* calculate_team_metrics called with no argument or with self.games
CalculateTeamMetricsOn == \E arg \in {NoTable, AsArg(games)} : CalcMetrics(arg)

\* calculate_team_metrics called with the table filter_games returned
CalculateFiltered ==
    filter_args.outcome = "returned" /\ CalcMetrics(AsArg(filtered))

MaxDate == 2

\* The dates of the season, in their order as strings; 0 is a missing date
\* in a table and a falsy argument (None or '') in a call
FilterDates == 0..MaxDate

Truthy(d) == d # 0

\* a or b
PyOr(a, b) == IF Truthy(a) THEN a ELSE b

\* lines 41-68: filter_games(start_date, end_date, exclude_dates, min_date,
\* max_date). A comparison with a NaN Date is False.
FilterRows(rows, a) ==
    LET s1 == IF Truthy(a.start_date) \/ Truthy(a.min_date)
              THEN SelectSeq(rows, LAMBDA r :
                      r.Date # NaN /\ r.Date >= PyOr(a.start_date, a.min_date))
              ELSE rows
        s2 == IF Truthy(a.end_date) \/ Truthy(a.max_date)
              THEN SelectSeq(s1, LAMBDA r :
                      r.Date # NaN /\ r.Date <= PyOr(a.end_date, a.max_date))
              ELSE s1
    IN IF a.exclude_dates # {}
       THEN SelectSeq(s2, LAMBDA r : r.Date \notin a.exclude_dates)
       ELSE s2

\* line 22: read_csv makes Date a column of floats when the file has rows and
\* no row has a date, and a column of objects otherwise; dropna and copy
\* keep the type (lines 34 and 55)
DateIsFloat == games.rows # <<>> /\ \A i \in 1..Len(games.rows) :
                                        games.rows[i].Date = NaN

\* lines 57-63: a column of floats compared with a string by >= or <= raises
\* TypeError (pandas: invalid comparison between dtype=float64 and str)
ComparisonRaises(a) ==
    /\ DateIsFloat
    /\ \/ Truthy(a.start_date) \/ Truthy(a.min_date)
       \/ Truthy(a.end_date) \/ Truthy(a.max_date)

\* Mutant: the rows are selected in the stored table itself
MutFilterInPlace(stored, a) ==
    [stored EXCEPT !.rows = FilterRows(stored.rows, a)]

\* line 55: filtered = self.completed_games.copy(): the rows are selected in
\* a copy, the stored table stays as it is
StoredAfterFilter(stored, a) == stored

FilterGames ==
    /\ pc = "metrics"
    /\ ~filter_args.called
    /\ \E sd, ed, mn, mx \in FilterDates, ex \in SUBSET (FilterDates \ {0}) :
          LET a == [called |-> TRUE, outcome |-> "returned", start_date |-> sd,
                    end_date |-> ed, min_date |-> mn, max_date |-> mx,
                    exclude_dates |-> ex]
          IN /\ completed_games' = StoredAfterFilter(completed_games, a)
             /\ IF ComparisonRaises(a)
                THEN /\ filter_args' = [a EXCEPT !.outcome = "TypeError"]
                     /\ UNCHANGED filtered
                ELSE /\ filter_args' = a
                     /\ filtered' =
                          [is_none |-> FALSE,
                           has_name_cols |-> completed_games.has_name_cols,
                           rows |-> FilterRows(completed_games.rows, a)]
    /\ UNCHANGED <<games_df, metrics, changes, compare_outcome, scraperVars>>
    /\ UNCHANGED <<games, standings, team_metrics,
                   num_divisions, names_arg, pc, division_names, teams,
                   divisions, division_strengths, division_order, forward,
                   result_df, outcome, calls, prev>>

------------------------------------------------------------------------------
(* GamesScraper, src/games_scraper.py. A text is a sequence of characters,   *)
(* '' is <<>>; the text of a date or score cell is a number, NonNumeric for  *)
(* other text, or EmptyText.                                                 *)

EmptyText == 0 - 3

\* current_date = None
NoneDate == 0 - 4

UpperCase == {"A", "B", "C", "D"}

\* line 20: dict(zip(mapping_df['Abbreviation'], mapping_df['Team'])): the
\* keys in the order of their first row, each with the name of its last row
ZipDict(rows) ==
    LET abbrevs == [i \in 1..Len(rows) |-> rows[i].Abbreviation]
    IN [keys |-> DictKeys(abbrevs),
        val |-> [k \in SeqRange(abbrevs) |->
                   rows[CHOOSE i \in 1..Len(rows) :
                          /\ rows[i].Abbreviation = k
                          /\ \A j \in (i + 1)..Len(rows) :
                                rows[j].Abbreviation # k].Team]]

\* lines 15-28: _load_team_mapping: every exception gives the empty dict
LoadedMapping(file) ==
    IF file.state = "readable" THEN ZipDict(file.rows) ELSE EmptyDict

\* lines 10-13: GamesScraper(url, team_mapping_file)
LoadTeamMapping ==
    /\ pc = "construct"
    /\ team_mapping' = LoadedMapping(mapping_file)
    /\ data' = NoData
    /\ pc' = "scrape"
    /\ UNCHANGED <<mapping_file, page, scrape_outcome, metricsVars,
                   tableVars>>
    /\ UNCHANGED <<games, completed_games, standings, team_metrics,
                   num_divisions, names_arg, division_names, teams, divisions,
                   division_strengths, division_order, forward, result_df,
                   outcome, calls, prev>>

\* Mutant: every row of the table is taken for a game
MutAnyRowIsGame(row) == TRUE

\* lines 61-68: a date header has 1 cell, a game has 8 cells
IsDateRow(row) == row.cells = 1

IsGameRow(row) == row.cells = 8

\* line 95: 'Date': current_date if current_date else ''
DateOf(current_date) ==
    IF current_date = NoneDate \/ current_date = EmptyText
    THEN EmptyText ELSE current_date

\* lines 57-106: the loop over all_rows[1:], from the rows left and the
\* current date
RECURSIVE ParseRows(_, _)
ParseRows(rows, current_date) ==
    IF rows = <<>> THEN <<>>
    ELSE IF IsDateRow(rows[1]) THEN ParseRows(Tail(rows), rows[1].text)
    ELSE IF ~IsGameRow(rows[1]) THEN ParseRows(Tail(rows), current_date)
    ELSE <<[Date |-> DateOf(current_date),
            AwayTeam |-> rows[1].away, AwayScore |-> rows[1].away_score,
            HomeTeam |-> rows[1].home, HomeScore |-> rows[1].home_score]>>
           \o ParseRows(Tail(rows), current_date)

\* all_rows[1:]
PyTail(rows) == IF rows = <<>> THEN <<>> ELSE Tail(rows)

\* team_str.startswith(abbrev)
StartsWith(str, abbrev) ==
    Len(abbrev) <= Len(str) /\ SubSeq(str, 1, Len(abbrev)) = abbrev

\* line 151: re.match(r'^([A-Z]{2,4})(.+)$', team_str): the length of group
\* 1, the most capitals (4 at most) that leave a character for group 2, or
\* 0 when there is no match
RegexAbbrevLen(str) ==
    LET caps == {k \in 2..4 : /\ k < Len(str)
                              /\ \A i \in 1..k : str[i] \in UpperCase}
    IN IF caps = {} THEN 0 ELSE CHOOSE k \in caps : \A j \in caps : j <= k

\* lines 137-155: split_team_name(team_str) with the mapping in use; the
\* text of a cell is stripped already (line 84)
SplitTeamName(team_str, mapping) ==
    LET hits == {i \in 1..Len(mapping.keys) :
                    StartsWith(team_str, mapping.keys[i])}
    IN IF team_str = <<>> THEN <<<<>>, <<>>>>
       ELSE IF hits # {}
       THEN LET abbrev == mapping.keys[CHOOSE i \in hits :
                                          \A j \in hits : i <= j]
            IN <<abbrev, SubSeq(team_str, Len(abbrev) + 1, Len(team_str))>>
       ELSE IF RegexAbbrevLen(team_str) > 0
       THEN <<SubSeq(team_str, 1, RegexAbbrevLen(team_str)),
              SubSeq(team_str, RegexAbbrevLen(team_str) + 1, Len(team_str))>>
       ELSE <<team_str, team_str>>

\* lines 168-173: map(self.team_mapping).fillna(extracted)
MappedName(split, mapping) ==
    IF split[1] \in DOMAIN mapping.val THEN mapping.val[split[1]]
    ELSE split[2]

\* Mutant: the name columns are added with an empty mapping too
MutAlwaysAddsNames(mapping) == TRUE

\* line 135: the columns exist; self.team_mapping is truthy
AddsNames(mapping) == mapping.keys # <<>>

\* lines 126-181: _add_team_names on the parsed table
WithTeamNames(rows, mapping) ==
    [i \in 1..Len(rows) |->
       LET a == SplitTeamName(rows[i].AwayTeam, mapping)
           h == SplitTeamName(rows[i].HomeTeam, mapping)
       IN [AwayTeamAbbrev |-> a[1], HomeTeamAbbrev |-> h[1],
           AwayTeamName |-> MappedName(a, mapping),
           HomeTeamName |-> MappedName(h, mapping)] @@ rows[i]]

\* lines 119-124: scrape(): fetch_page, parse_games, _add_team_names. A
\* fetch that fails and a page without table or without game raise, and
\* self.data stays as it was.
Scrape ==
    /\ pc = "scrape"
    /\ LET parsed == ParseRows(PyTail(page.rows), NoneDate)
       IN IF ~page.fetched
          THEN /\ scrape_outcome' = "RequestException"
               /\ pc' = "done"
               /\ UNCHANGED data
          ELSE IF ~page.has_table \/ parsed = <<>>
          THEN /\ scrape_outcome' = "ValueError"
               /\ pc' = "done"
               /\ UNCHANGED data
          ELSE /\ scrape_outcome' = "returned"
               /\ pc' = "export"
               /\ data' = IF AddsNames(team_mapping)
                          THEN [is_none |-> FALSE, has_name_cols |-> TRUE,
                                rows |-> WithTeamNames(parsed, team_mapping)]
                          ELSE [is_none |-> FALSE, has_name_cols |-> FALSE,
                                rows |-> parsed]
    /\ UNCHANGED <<mapping_file, team_mapping, page, metricsVars,
                   tableVars>>
    /\ UNCHANGED <<games, completed_games, standings, team_metrics,
                   num_divisions, names_arg, division_names, teams, divisions,
                   division_strengths, division_order, forward, result_df,
                   outcome, calls, prev>>

\* The characters of the team texts
CharList == <<"A", "B", "C", "D", "x", "y">>

\* A text as the analyzer holds a team name: a positive number, a different
\* one for every text
RECURSIVE Code(_)
Code(str) ==
    IF str = <<>> THEN 0
    ELSE (CHOOSE i \in 1..Len(CharList) : CharList[i] = str[1])
           + (Len(CharList) + 1) * Code(Tail(str))

\* to_csv and read_csv of a text cell: the empty text is read as NaN
CsvTeam(str) == IF str = <<>> THEN NaN ELSE Code(str)

\* to_csv and read_csv of a score cell and of a date cell
CsvScore(cell) == IF cell = EmptyText THEN NoScore ELSE cell

CsvDate(cell) == IF cell = EmptyText THEN NaN ELSE cell

\* lines 183-197 and src/division_analyzer.py line 22: the table as
\* DivisionAnalyzer reads it from the file export_to_csv wrote
ReadCsv(df) ==
    [has_name_cols |-> df.has_name_cols,
     rows |-> [i \in 1..Len(df.rows) |->
        LET r == df.rows[i]
        IN [AwayTeam |-> CsvTeam(r.AwayTeam), HomeTeam |-> CsvTeam(r.HomeTeam),
            AwayTeamName |-> IF df.has_name_cols THEN CsvTeam(r.AwayTeamName)
                             ELSE NaN,
            HomeTeamName |-> IF df.has_name_cols THEN CsvTeam(r.HomeTeamName)
                             ELSE NaN,
            AwayScore |-> CsvScore(r.AwayScore),
            HomeScore |-> CsvScore(r.HomeScore),
            Date |-> CsvDate(r.Date)]]]

\* export_to_csv (ValueError while self.data is None), and the file read
\* by DivisionAnalyzer(games_file)
ExportToCsv ==
    /\ pc = "export"
    /\ IF data.is_none
       THEN /\ scrape_outcome' = "ValueError"
            /\ pc' = "done"
            /\ UNCHANGED games
       ELSE /\ games' = ReadCsv(data)
            /\ pc' = "prepare"
            /\ UNCHANGED scrape_outcome
    /\ UNCHANGED <<mapping_file, team_mapping, page, data, metricsVars,
                   tableVars>>
    /\ UNCHANGED <<completed_games, standings, team_metrics, num_divisions,
                   names_arg, division_names, teams, divisions,
                   division_strengths, division_order, forward, result_df,
                   outcome, calls, prev>>

------------------------------------------------------------------------------
(* HockeyStatsScraper (src/scraper.py) and TeamStandingsScraper              *)
(* (src/team_standings_scraper.py). A header text is the sequence of its    *)
(* parts ('GP_1' is <<"GP", "_", "1">>, '' is <<>>); the text of a data     *)
(* cell is a number, NonNumeric, ShareText or EmptyText. One table of the   *)
(* page is parsed.                                                          *)

\* The text of a cell of the share buttons
ShareText == 0 - 5

DigitList == <<"0", "1", "2", "3", "4", "5", "6", "7", "8", "9">>

\* str(n) of a number below 100
Str(n) ==
    IF n < 10 THEN <<DigitList[n + 1]>>
    ELSE <<DigitList[(n \div 10) + 1], DigitList[(n % 10) + 1]>>

\* src/scraper.py line 65: f"Column_{len(headers)}"
ColumnName(hs) == <<"Column", "_">> \o Str(Len(hs))

\* src/scraper.py line 70, src/team_standings_scraper.py line 79:
\* f"{original_header}_{counter}"
Renamed(original, k) == original \o <<"_">> \o Str(k)

\* src/team_standings_scraper.py line 73: 'share' or 'tweet' in the text
SocialHeader(text) ==
    \E i \in 1..Len(text) : text[i] \in {"Share", "Tweet"}

\* Mutant: the text is compared with the last header only
MutOnlyLastHeader(text, hs) == hs # <<>> /\ text = hs[Len(hs)]

\* src/scraper.py line 69, src/team_standings_scraper.py line 78:
\* header_text in headers
InHeaders(text, hs) == \E i \in 1..Len(hs) : hs[i] = text

\* The renaming loop is followed for this many rounds
MaxRename == Len(table.header) + 1

\* src/scraper.py lines 61-68, src/team_standings_scraper.py lines 70-77: the
\* next cell of the header row; parse_table names an empty header,
\* parse_standings skips it and the share buttons
NextHeader ==
    /\ ppc = "headers"
    /\ IF th > Len(table.header)
       THEN /\ ppc' = "rows"
            /\ UNCHANGED <<th, header_text, original_header, counter>>
       ELSE LET text == table.header[th]
            IN IF /\ scraper = "TeamStandingsScraper"
                  /\ (text = <<>> \/ SocialHeader(text))
               THEN /\ th' = th + 1
                    /\ UNCHANGED <<ppc, header_text, original_header, counter>>
               ELSE /\ header_text' = IF text = <<>> THEN ColumnName(headers)
                                      ELSE text
                    /\ original_header' = header_text'
                    /\ counter' = 1
                    /\ ppc' = "while"
                    /\ UNCHANGED th
    /\ UNCHANGED <<scraper, table, headers, rows_data, written, call>>
    /\ UNCHANGED <<analyzerVars, metricsVars, mapping_file, team_mapping, page,
                   data, scrape_outcome>>

\* src/scraper.py lines 69-71, src/team_standings_scraper.py lines 78-80:
\* one round of the while loop
RenameHeader ==
    /\ ppc = "while"
    /\ InHeaders(header_text, headers)
    /\ counter <= MaxRename
    /\ header_text' = Renamed(original_header, counter)
    /\ counter' = counter + 1
    /\ UNCHANGED <<scraper, table, ppc, th, headers, original_header,
                   rows_data, written, call>>
    /\ UNCHANGED <<analyzerVars, metricsVars, mapping_file, team_mapping, page,
                   data, scrape_outcome>>

\* src/scraper.py line 72, src/team_standings_scraper.py line 81: the loop
\* has ended, headers.append(header_text)
AppendHeader ==
    /\ ppc = "while"
    /\ ~InHeaders(header_text, headers)
    /\ headers' = Append(headers, header_text)
    /\ th' = th + 1
    /\ ppc' = "headers"
    /\ UNCHANGED <<scraper, table, header_text, original_header, counter,
                   rows_data, written, call>>
    /\ UNCHANGED <<analyzerVars, metricsVars, mapping_file, team_mapping, page,
                   data, scrape_outcome>>

\* src/team_standings_scraper.py line 114: a row is kept with 5 filled cells
MinStandingCells == 5

\* src/scraper.py line 87: every cell; src/team_standings_scraper.py lines
\* 98-111: a first cell that is empty or a share button is left out
RowData(kind, cells) ==
    IF /\ kind = "TeamStandingsScraper"
       /\ cells # <<>>
       /\ cells[1] \in {EmptyText, ShareText}
    THEN Tail(cells)
    ELSE cells

\* src/scraper.py line 90: any cell is filled; src/team_standings_scraper.py
\* line 114: at least 5 cells are filled
KeepsRow(kind, row_data) ==
    LET filled == {i \in 1..Len(row_data) : row_data[i] # EmptyText}
    IN IF kind = "TeamStandingsScraper"
       THEN Cardinality(filled) >= MinStandingCells
       ELSE filled # {}

\* src/scraper.py lines 92-95, src/team_standings_scraper.py lines 116-119:
\* pad with '' or trim to the length of the headers
FitRow(row_data, n) ==
    IF Len(row_data) < n
    THEN row_data \o [i \in 1..(n - Len(row_data)) |-> EmptyText]
    ELSE SubSeq(row_data, 1, n)

RECURSIVE KeptRows(_, _, _)
KeptRows(kind, rows, hs) ==
    IF rows = <<>> THEN <<>>
    ELSE LET row_data == RowData(kind, Head(rows))
         IN (IF KeepsRow(kind, row_data) THEN <<FitRow(row_data, Len(hs))>>
             ELSE <<>>)
            \o KeptRows(kind, Tail(rows), hs)

\* src/scraper.py lines 74-96, src/team_standings_scraper.py lines 83-124:
\* the data rows; parse_standings goes to the next table when it has no
\* header
ExtractRows ==
    /\ ppc = "rows"
    /\ rows_data' = IF scraper = "TeamStandingsScraper" /\ headers = <<>>
                    THEN <<>>
                    ELSE KeptRows(scraper, table.rows, headers)
    /\ ppc' = "parsed"
    /\ UNCHANGED <<scraper, table, th, headers, header_text, original_header,
                   counter, written, call>>
    /\ UNCHANGED <<analyzerVars, metricsVars, mapping_file, team_mapping, page,
                   data, scrape_outcome>>

\* The parsed table as self.data holds it; has_name_cols and has_pim_gp tell
\* whether _add_team_names and _add_calculated_columns added their columns
ParsedData(hs, rows) ==
    [is_none |-> FALSE, has_name_cols |-> FALSE, columns |-> hs,
     rows |-> rows, has_pim_gp |-> FALSE, pim_gp |-> <<>>]

\* src/scraper.py lines 98-102 and 107: self.data = self.parse_table(html);
\* src/team_standings_scraper.py lines 126-133 and 138: parse_standings
\* raises ValueError when no row was kept, before self.data is assigned
AssignData ==
    /\ ppc = "parsed"
    /\ IF scraper = "TeamStandingsScraper" /\ rows_data = <<>>
       THEN /\ call' = [call EXCEPT !.outcome = "ValueError"]
            /\ ppc' = "idle"
            /\ UNCHANGED data
       ELSE /\ data' = ParsedData(headers, rows_data)
            /\ ppc' = "columns"
            /\ UNCHANGED call
    /\ UNCHANGED <<scraper, table, th, headers, header_text, original_header,
                   counter, rows_data, written>>
    /\ UNCHANGED <<analyzerVars, metricsVars, mapping_file, team_mapping, page,
                   scrape_outcome>>

\* col.upper() of a header text
UpperText(text) ==
    IF text = <<"Pim">> THEN <<"PIM">>
    ELSE IF text = <<"gp">> THEN <<"GP">>
    ELSE text

\* src/scraper.py lines 122-130: the last column whose upper-case name is
\* the given one, 0 for None
ColumnNamed(name, columns) ==
    LET C == {i \in 1..Len(columns) : UpperText(columns[i]) = name}
    IN IF C = {} THEN 0 ELSE CHOOSE i \in C : \A j \in C : j <= i

\* float('inf'), the quotient of a positive number and 0 in a float column
Infinity == 0 - 6

\* src/scraper.py line 139: (pim_numeric / gp_numeric).round(2), in
\* hundredths: NaN when a side is NaN and for 0 / 0, inf for a positive
\* number over 0
Quotient(pim_numeric, gp_numeric) ==
    IF pim_numeric = NoScore \/ gp_numeric = NoScore THEN NoScore
    ELSE IF gp_numeric = 0
    THEN (IF pim_numeric = 0 THEN NoScore ELSE Infinity)
    ELSE RoundDiv(100 * pim_numeric, gp_numeric)

\* src/scraper.py line 140: fillna(0)
FillNa(value) == IF value = NoScore THEN 0 ELSE value

\* src/scraper.py lines 132-142: the column PIM/GP
PimPerGp(pim_cell, gp_cell) ==
    FillNa(Quotient(ToNumeric(pim_cell), ToNumeric(gp_cell)))

\* src/team_standings_scraper.py lines 148-152: a column with 'team' in its
\* lower-case name
TeamColumn(columns) ==
    \E i \in 1..Len(columns) : \E j \in 1..Len(columns[i]) :
        columns[i][j] = "Team"

\* src/scraper.py lines 108 and 111-158: _add_calculated_columns adds PIM/GP
\* when the table has the columns PIM and GP (the table of this model has
\* no column TEAM or PLAYERS); src/team_standings_scraper.py lines 139 and
\* 142-196: _add_team_names adds Team Abbrev and Team Name when the table
\* has a team column. Then scrape() returns self.data.
AddColumns ==
    /\ ppc = "columns"
    /\ LET pim_col == ColumnNamed(<<"PIM">>, data.columns)
           gp_col == ColumnNamed(<<"GP">>, data.columns)
       IN data' =
            IF scraper = "TeamStandingsScraper"
            THEN [data EXCEPT !.has_name_cols = TeamColumn(data.columns)]
            ELSE IF pim_col # 0 /\ gp_col # 0
            THEN [data EXCEPT
                    !.has_pim_gp = TRUE,
                    !.pim_gp = [i \in 1..Len(data.rows) |->
                                  PimPerGp(data.rows[i][pim_col],
                                           data.rows[i][gp_col])]]
            ELSE data
    /\ call' = [call EXCEPT !.outcome = "returned"]
    /\ ppc' = "idle"
    /\ UNCHANGED <<scraper, table, th, headers, header_text, original_header,
                   counter, rows_data, written>>
    /\ UNCHANGED <<analyzerVars, metricsVars, mapping_file, team_mapping, page,
                   scrape_outcome>>

\* The pages the URL of a stats or standings scraper serves from one call
\* to the next: none (the request fails), one without table, a table with
\* a repeated header and no data row, a standings table
CallTables ==
    {NoHtml,
     [fetched |-> TRUE, has_table |-> FALSE, header |-> <<>>, rows |-> <<>>],
     [fetched |-> TRUE, has_table |-> TRUE,
      header |-> <<<<"GP">>, <<"GP">>>>, rows |-> <<>>],
     [fetched |-> TRUE, has_table |-> TRUE,
      header |-> <<<<"Team">>, <<"GP">>, <<"W">>, <<"L">>, <<"T">>,
                   <<"PTS">>>>,
      rows |-> <<<<1, 1, 0, 0, 2>>>>]}

\* src/scraper.py lines 104-107 and 38-59, src/team_standings_scraper.py
\* lines 135-138 and 36-68: scrape() fetches the page and begins to parse
\* it. fetch_page raises for a failed request; parse_table raises ValueError
\* for a page without table, and so does parse_standings (no table, no row).
ScrapeCall ==
    /\ ppc = "idle"
    /\ scraper \in {"HockeyStatsScraper", "TeamStandingsScraper"}
    /\ \E t \in CallTables :
          /\ table' = t
          /\ IF ~t.fetched
             THEN /\ call' = [method |-> "scrape",
                              outcome |-> "RequestException"]
                  /\ UNCHANGED <<ppc, th, headers, header_text,
                                 original_header, counter, rows_data>>
             ELSE IF ~t.has_table
             THEN /\ call' = [method |-> "scrape", outcome |-> "ValueError"]
                  /\ UNCHANGED <<ppc, th, headers, header_text,
                                 original_header, counter, rows_data>>
             ELSE /\ call' = [method |-> "scrape", outcome |-> "running"]
                  /\ ppc' = "headers"
                  /\ th' = 1
                  /\ headers' = <<>>
                  /\ header_text' = <<>>
                  /\ original_header' = <<>>
                  /\ counter' = 1
                  /\ rows_data' = <<>>
    /\ UNCHANGED <<scraper, written>>
    /\ UNCHANGED <<analyzerVars, metricsVars, mapping_file, team_mapping, page,
                   data, scrape_outcome>>

\* The pages the URL of a games scraper serves from one call to the next
CallPages ==
    {NoPage,
     [fetched |-> TRUE, has_table |-> FALSE, rows |-> <<>>],
     [fetched |-> TRUE, has_table |-> TRUE,
      rows |-> <<[cells |-> 8, text |-> EmptyText, away |-> <<>>,
                  home |-> <<>>, away_score |-> NonNumeric,
                  home_score |-> NonNumeric]>>],
     [fetched |-> TRUE, has_table |-> TRUE,
      rows |-> <<[cells |-> 8, text |-> EmptyText, away |-> <<>>,
                  home |-> <<>>, away_score |-> NonNumeric,
                  home_score |-> NonNumeric],
                 [cells |-> 8, text |-> EmptyText, away |-> <<"A", "B", "x">>,
                  home |-> <<"C", "D", "y">>, away_score |-> 1,
                  home_score |-> 0]>>]}

\* src/games_scraper.py lines 119-124: scrape() of a games scraper, called
\* at any time
ScrapeGamesCall ==
    /\ ppc = "idle"
    /\ scraper = "GamesScraper"
    /\ \E p \in CallPages :
          LET parsed == ParseRows(PyTail(p.rows), NoneDate)
          IN /\ page' = p
             /\ IF ~p.fetched
                THEN /\ call' = [method |-> "scrape",
                                 outcome |-> "RequestException"]
                     /\ UNCHANGED data
                ELSE IF ~p.has_table \/ parsed = <<>>
                THEN /\ call' = [method |-> "scrape",
                                 outcome |-> "ValueError"]
                     /\ UNCHANGED data
                ELSE /\ call' = [method |-> "scrape", outcome |-> "returned"]
                     /\ data' = IF AddsNames(team_mapping)
                                THEN [is_none |-> FALSE,
                                      has_name_cols |-> TRUE,
                                      rows |-> WithTeamNames(parsed,
                                                             team_mapping)]
                                ELSE [is_none |-> FALSE,
                                      has_name_cols |-> FALSE,
                                      rows |-> parsed]
    /\ UNCHANGED <<scraper, table, ppc, th, headers, header_text,
                   original_header, counter, rows_data, written>>
    /\ UNCHANGED <<analyzerVars, metricsVars, mapping_file, team_mapping,
                   scrape_outcome>>

\* The methods that write: the three of HockeyStatsScraper, export_to_csv
\* of the other two
ExportMethods(kind) ==
    IF kind = "HockeyStatsScraper"
    THEN {"export_to_csv", "export_to_json", "save_to_database"}
    ELSE {"export_to_csv"}

\* Mutant: the methods write whatever self.data is
MutNeverRaises(d) == FALSE

\* src/scraper.py lines 199, 215, 231, src/games_scraper.py line 185,
\* src/team_standings_scraper.py line 200: if self.data is None
NoDataToExport(d) == d.is_none

\* src/scraper.py lines 197-247, src/games_scraper.py lines 183-197,
\* src/team_standings_scraper.py lines 198-212: ValueError before anything
\* is opened or written while self.data is None; otherwise the file or the
\* database table is written
ExportCall ==
    /\ ppc = "idle"
    /\ \E method \in ExportMethods(scraper) :
          IF NoDataToExport(data)
          THEN /\ call' = [method |-> method, outcome |-> "ValueError"]
               /\ UNCHANGED written
          ELSE /\ call' = [method |-> method, outcome |-> "returned"]
               /\ written' = written \cup {method}
    /\ UNCHANGED <<scraper, table, ppc, th, headers, header_text,
                   original_header, counter, rows_data>>
    /\ UNCHANGED <<analyzerVars, metricsVars, mapping_file, team_mapping, page,
                   data, scrape_outcome>>

------------------------------------------------------------------------------
(* Inputs *)

StrengthVals == {0 - 125, 5050}

Labels == {"X", "Y"}

NoGames == [has_name_cols |-> FALSE, rows |-> <<>>]

NoStandings == [is_none |-> TRUE, has_division |-> FALSE, rows |-> <<>>]

\* A standings table with a Division column
OneStanding ==
    [is_none |-> FALSE, has_division |-> TRUE,
     rows |-> <<[Team |-> 1, Division |-> "A"]>>]

\* A standings table without a Division column
NoDivisionStanding ==
    [is_none |-> FALSE, has_division |-> FALSE, rows |-> <<[Team |-> 1]>>]

\* A team metrics table of n rows: one row per team
TeamTables(n) ==
    {[i \in 1..n |-> [Team |-> i, Strength |-> s[i]]] :
        s \in [1..n -> StrengthVals]}

LabelLists == UNION {[1..n -> Labels] : n \in 0..MaxLabels}

NoNames == [is_none |-> TRUE, value |-> <<>>]

\* The worked example of the specification: ten teams ranked 1..10
RankedTable(n) == [i \in 1..n |-> [Team |-> i, Strength |-> (n - i) * 1000 + 25]]

InitLocals ==
    /\ division_names = <<>>
    /\ teams = <<>>
    /\ divisions = NewDict(<<>>, <<>>)
    /\ division_strengths = [n \in {} |-> 0]
    /\ division_order = <<>>
    /\ forward = TRUE
    /\ result_df = <<>>
    /\ outcome = "running"
    /\ calls = 0
    /\ prev = [outcome |-> "none"]
    /\ games_df = NoTable
    /\ metrics = <<>>
    /\ filter_args = NoFilter
    /\ filtered = NoTable
    /\ changes = NoChanges
    /\ compare_outcome = "none"
    /\ mapping_file = NoFile
    /\ team_mapping = EmptyDict
    /\ page = NoPage
    /\ data = NoData
    /\ scrape_outcome = "none"
    /\ InitTable

\* A call of suggest_divisions on a table of at most n teams
InitSuggest(n) ==
    /\ games = NoGames
    /\ completed_games = NoGames
    /\ (standings = NoStandings \/ standings = OneStanding)
    /\ team_metrics \in UNION {TeamTables(k) : k \in 0..n}
    /\ \/ /\ names_arg = NoNames
          /\ num_divisions \in (0 - MaxNegDivisions)..MaxNumDivisions
       \/ /\ names_arg \in [is_none : {FALSE}, value : LabelLists]
          /\ num_divisions \in 0..(MaxLabels + 1)
    /\ pc = "suggest"
    /\ InitLocals

\* The raw cells of a score column: a number, an empty cell or other text
RawScores == (0..MaxScore) \cup {NoScore, NonNumeric}

\* The name columns are a function of the raw team columns (the mapping of
\* the scraper); NaN where the name is missing
NameMaps == [1..MaxGameTeams -> 0..MaxGameTeams]

GameRows(name_of) ==
    {[AwayTeam |-> a, HomeTeam |-> h,
      AwayTeamName |-> name_of[a], HomeTeamName |-> name_of[h],
      AwayScore |-> as, HomeScore |-> hs, Date |-> 1] :
        a \in 1..MaxGameTeams, h \in 1..MaxGameTeams,
        as \in RawScores, hs \in RawScores}

GameTables ==
    {[has_name_cols |-> FALSE, rows |-> r] :
        r \in UNION {[1..n -> {g \in GameRows([t \in 1..MaxGameTeams |-> NaN]) :
                                  g.AwayTeam # g.HomeTeam}] : n \in 0..MaxGames}}
    \cup UNION {
       {[has_name_cols |-> TRUE, rows |-> r] :
          r \in UNION {[1..n -> {g \in GameRows(m) : g.AwayTeam # g.HomeTeam}] :
                         n \in 0..MaxGames}} : m \in NameMaps}

\* The run of main(): the analyzer is built from the games file, the metrics
\* are computed and suggest_divisions is called with num_divisions = 5
InitPipeline ==
    /\ games \in GameTables
    /\ completed_games = NoGames
    /\ (standings = NoStandings \/ standings = OneStanding)
    /\ team_metrics = <<>>
    /\ num_divisions = DefaultNumDivisions
    /\ names_arg = NoNames
    /\ pc = "prepare"
    /\ InitLocals

Init ==
    /\ games = NoGames
    /\ completed_games = NoGames
    /\ (standings = NoStandings \/ standings = OneStanding)
    /\ \/ /\ team_metrics \in UNION {TeamTables(n) : n \in 0..MaxTeams}
          /\ \/ /\ names_arg = NoNames
                /\ num_divisions \in (0 - MaxNegDivisions)..MaxNumDivisions
             \/ /\ names_arg \in [is_none : {FALSE}, value : LabelLists]
                /\ num_divisions \in 0..(MaxLabels + 1)
       \/ /\ team_metrics = RankedTable(2 * DefaultNumDivisions)
          /\ num_divisions = DefaultNumDivisions
          /\ names_arg \in {NoNames,
                [is_none |-> FALSE,
                 value |-> PySliceTo(DefaultNames, DefaultNumDivisions)]}
    /\ pc = "suggest"
    /\ InitLocals

\* The games of two teams: the away and the home score of a game played,
\* or other text in place of one of them
MaxMetricGames == 3

MetricScores ==
    {<<0, 0>>, <<0, 1>>, <<1, 0>>, <<1, 1>>, <<NonNumeric, 0>>,
     <<1, NonNumeric>>}

MetricRows ==
    {[AwayTeam |-> a, HomeTeam |-> h, AwayTeamName |-> NaN,
      HomeTeamName |-> NaN, AwayScore |-> sc[1], HomeScore |-> sc[2],
      Date |-> 1] :
        a \in {1, 2}, h \in {1, 2}, sc \in MetricScores}

MetricGameTables ==
    {[has_name_cols |-> FALSE, rows |-> r] :
        r \in UNION {[1..n -> {g \in MetricRows : g.AwayTeam # g.HomeTeam}] :
                       n \in 0..MaxMetricGames}}

\* An analyzer built from a games file, and calculate_team_metrics called
InitMetrics ==
    /\ games \in MetricGameTables
    /\ completed_games = NoGames
    /\ standings = NoStandings
    /\ team_metrics = <<>>
    /\ num_divisions = DefaultNumDivisions
    /\ names_arg = NoNames
    /\ pc = "prepare"
    /\ InitLocals

\* The games of one pairing on the dates of the season, one game of them
\* possibly not played yet
MaxFilterGames == 2

FilterGameRows ==
    {[AwayTeam |-> 1, HomeTeam |-> 2, AwayTeamName |-> NaN,
      HomeTeamName |-> NaN, AwayScore |-> 1, HomeScore |-> 0, Date |-> d] :
        d \in FilterDates}
    \cup {[AwayTeam |-> 1, HomeTeam |-> 2, AwayTeamName |-> NaN,
           HomeTeamName |-> NaN, AwayScore |-> NoScore, HomeScore |-> NoScore,
           Date |-> 1]}

FilterGameTables ==
    {[has_name_cols |-> FALSE, rows |-> r] :
        r \in UNION {[1..n -> FilterGameRows] : n \in 0..MaxFilterGames}}

\* An analyzer built from a games file, and filter_games called
InitFilter ==
    /\ games \in FilterGameTables
    /\ completed_games = NoGames
    /\ standings = NoStandings
    /\ team_metrics = <<>>
    /\ num_divisions = DefaultNumDivisions
    /\ names_arg = NoNames
    /\ pc = "prepare"
    /\ InitLocals

\* A table as calculate_team_metrics returns it, as far as compare_divisions
\* reads it: n teams of one game each
MaxStandingTeams == 2

FullTeamTables(n) ==
    {[i \in 1..n |-> [Team |-> i, Strength |-> s[i], WinPct |-> 1000,
                      Points |-> 2]] :
        s \in [1..n -> StrengthVals]}

\* An analyzer built with or without a standings file, and suggest_divisions
\* called on a table of at most MaxStandingTeams teams
InitStandings ==
    /\ games = NoGames
    /\ completed_games = NoGames
    /\ standings \in {NoStandings, OneStanding, NoDivisionStanding}
    /\ team_metrics \in UNION {TeamTables(k) \cup FullTeamTables(k) :
                                 k \in 0..MaxStandingTeams}
    /\ names_arg \in {NoNames, [is_none |-> FALSE, value |-> <<"X", "Y">>]}
    /\ num_divisions \in {0, 2}
    /\ pc = "suggest"
    /\ InitLocals

\* The mapping files: none, one that cannot be read as a mapping, and
\* readable ones
MappingFiles ==
    {NoFile,
     [state |-> "unreadable", rows |-> <<>>],
     [state |-> "readable", rows |-> <<>>],
     [state |-> "readable",
      rows |-> <<[Abbreviation |-> <<"A", "B">>, Team |-> <<"x", "y">>]>>]}

\* The rows of the games table after its header: date headers, games, and
\* rows of another number of cells
MaxPageRows == 3

PageRows ==
    {[cells |-> 1, text |-> d, away |-> <<>>, home |-> <<>>,
      away_score |-> EmptyText, home_score |-> EmptyText] :
        d \in {EmptyText, 1, 2}}
    \cup {[cells |-> c, text |-> EmptyText, away |-> g[1], home |-> g[2],
           away_score |-> g[3], home_score |-> g[4]] :
            c \in {3, 8},
            g \in {<<<<"A", "B", "x">>, <<"C", "D", "y">>, 1, 0>>,
                   <<<<"C", "D", "y">>, <<"A", "B", "x">>, 0, 0>>,
                   <<<<"C", "D", "y">>, <<>>, EmptyText, EmptyText>>}}

HeaderRow ==
    [cells |-> 8, text |-> EmptyText, away |-> <<>>, home |-> <<>>,
     away_score |-> NonNumeric, home_score |-> NonNumeric]

Pages ==
    {NoPage,
     [fetched |-> TRUE, has_table |-> FALSE, rows |-> <<>>],
     [fetched |-> TRUE, has_table |-> TRUE, rows |-> <<>>]}
    \cup {[fetched |-> TRUE, has_table |-> TRUE, rows |-> <<HeaderRow>> \o r] :
            r \in UNION {[1..n -> PageRows] : n \in 0..MaxPageRows}}

\* The team texts of a cell: the texts of at most MaxTextLen characters
MaxTextLen == 4

TeamTexts ==
    UNION {[1..n -> SeqRange(CharList)] : n \in 0..MaxTextLen}

\* Mapping files with one abbreviation
SplitMappingFiles ==
    {[state |-> "readable",
      rows |-> <<[Abbreviation |-> k, Team |-> <<"x", "y">>]>>] :
        k \in {<<"C", "D">>, <<"A">>}}

\* Pages of one game whose away team has any of the texts
SplitPages ==
    {[fetched |-> TRUE, has_table |-> TRUE,
      rows |-> <<HeaderRow,
                 [cells |-> 8, text |-> EmptyText, away |-> t,
                  home |-> <<"C", "D", "y">>, away_score |-> 1,
                  home_score |-> 0]>>] : t \in TeamTexts}

\* GamesScraper built with a mapping file and run on a page of one game
InitSplit ==
    /\ games = NoGames
    /\ completed_games = NoGames
    /\ standings = NoStandings
    /\ team_metrics = <<>>
    /\ num_divisions = DefaultNumDivisions
    /\ names_arg = NoNames
    /\ pc = "construct"
    /\ division_names = <<>>
    /\ teams = <<>>
    /\ divisions = NewDict(<<>>, <<>>)
    /\ division_strengths = [n \in {} |-> 0]
    /\ division_order = <<>>
    /\ forward = TRUE
    /\ result_df = <<>>
    /\ outcome = "running"
    /\ calls = 0
    /\ prev = [outcome |-> "none"]
    /\ games_df = NoTable
    /\ metrics = <<>>
    /\ filter_args = NoFilter
    /\ filtered = NoTable
    /\ changes = NoChanges
    /\ compare_outcome = "none"
    /\ mapping_file \in SplitMappingFiles
    /\ team_mapping = EmptyDict
    /\ page \in SplitPages
    /\ data = NoData
    /\ scrape_outcome = "none"
    /\ InitTable

\* The run of games_scraper.main() followed by division_analyzer.main() up
\* to the team metrics
InitScraper ==
    /\ games = NoGames
    /\ completed_games = NoGames
    /\ standings = NoStandings
    /\ team_metrics = <<>>
    /\ num_divisions = DefaultNumDivisions
    /\ names_arg = NoNames
    /\ pc = "construct"
    /\ division_names = <<>>
    /\ teams = <<>>
    /\ divisions = NewDict(<<>>, <<>>)
    /\ division_strengths = [n \in {} |-> 0]
    /\ division_order = <<>>
    /\ forward = TRUE
    /\ result_df = <<>>
    /\ outcome = "running"
    /\ calls = 0
    /\ prev = [outcome |-> "none"]
    /\ games_df = NoTable
    /\ metrics = <<>>
    /\ filter_args = NoFilter
    /\ filtered = NoTable
    /\ changes = NoChanges
    /\ compare_outcome = "none"
    /\ mapping_file \in MappingFiles
    /\ team_mapping = EmptyDict
    /\ page \in Pages
    /\ data = NoData
    /\ scrape_outcome = "none"
    /\ InitTable

Next == SuggestStart \/ BuildPass \/ AssignTeams \/ BuildResult

Spec == Init /\ [][Next]_vars

NextPipeline == PrepareData \/ CalculateTeamMetrics \/ Next

SpecPipeline == InitPipeline /\ [][NextPipeline]_vars

NextMetrics == PrepareData \/ CalculateTeamMetricsOn

SpecMetrics == InitMetrics /\ [][NextMetrics]_vars

NextScraper ==
    LoadTeamMapping \/ Scrape \/ ExportToCsv \/ PrepareData
        \/ CalculateTeamMetrics

SpecScraper == InitScraper /\ [][NextScraper]_vars

NextSplit == LoadTeamMapping \/ Scrape

SpecSplit == InitSplit /\ [][NextSplit]_vars

\* The header texts of a page
MaxHeaders == 3

HeaderTexts ==
    {<<>>, <<"GP">>, <<"GP", "_", "1">>, <<"Column", "_", "1">>, <<"Share">>}

\* The header rows: any texts, or the six columns of a standings table
HeaderLists ==
    UNION {[1..n -> HeaderTexts] : n \in 0..MaxHeaders}
        \cup {<<<<"Team">>, <<"GP">>, <<"W">>, <<"L">>, <<"T">>, <<"PTS">>>>}

\* The data rows of a page: an empty row, a short one, one of 5 cells, one
\* that begins with an empty cell, one that begins with the share buttons
\* and a long one
PageTableRows ==
    <<<<EmptyText, EmptyText>>,
      <<1>>,
      <<1, 1, 0, 0, 2>>,
      <<EmptyText, 1, 1, 1, 0, 2>>,
      <<ShareText, 1, 1, 1, 0, 2, 1>>,
      <<1, 2, 1, 1, 0, 2, 1>>>>

ParseTables ==
    {[fetched |-> TRUE, has_table |-> TRUE, header |-> h,
      rows |-> SubSeq(PageTableRows, 1, n)] :
        h \in HeaderLists, n \in 0..Len(PageTableRows)}

\* parse_table or parse_standings is called with the page
InitParse ==
    /\ games = NoGames
    /\ completed_games = NoGames
    /\ standings = NoStandings
    /\ team_metrics = <<>>
    /\ num_divisions = DefaultNumDivisions
    /\ names_arg = NoNames
    /\ pc = "done"
    /\ division_names = <<>>
    /\ teams = <<>>
    /\ divisions = NewDict(<<>>, <<>>)
    /\ division_strengths = [n \in {} |-> 0]
    /\ division_order = <<>>
    /\ forward = TRUE
    /\ result_df = <<>>
    /\ outcome = "running"
    /\ calls = 0
    /\ prev = [outcome |-> "none"]
    /\ games_df = NoTable
    /\ metrics = <<>>
    /\ filter_args = NoFilter
    /\ filtered = NoTable
    /\ changes = NoChanges
    /\ compare_outcome = "none"
    /\ mapping_file = NoFile
    /\ team_mapping = EmptyDict
    /\ page = NoPage
    /\ data = NoData
    /\ scrape_outcome = "none"
    /\ scraper \in {"HockeyStatsScraper", "TeamStandingsScraper"}
    /\ table \in ParseTables
    /\ ppc = "headers"
    /\ th = 1
    /\ headers = <<>>
    /\ header_text = <<>>
    /\ original_header = <<>>
    /\ counter = 1
    /\ rows_data = <<>>
    /\ written = {}
    /\ call = [method |-> "scrape", outcome |-> "running"]

NextParse == NextHeader \/ RenameHeader \/ AppendHeader \/ ExtractRows

\* The parse runs to its end: the interpreter never stops between two steps
SpecParse == InitParse /\ [][NextParse]_vars /\ WF_vars(NextParse)

\* The player tables of parse_table: the columns, and at most MaxPlayers
\* rows of cells
MaxPlayers == 1

StatColumns ==
    {<<<<"GP">>, <<"PIM">>>>, <<<<"PIM">>, <<"gp">>>>,
     <<<<"PIM">>, <<"GP">>, <<"Pim">>>>, <<<<"GP">>, <<"G">>>>}

StatCells == {EmptyText, NonNumeric, 0, 1, 3}

StatTables ==
    UNION {{ParsedData(c, r) : r \in [1..n -> [1..Len(c) -> StatCells]]} :
             c \in StatColumns, n \in 0..MaxPlayers}

\* HockeyStatsScraper.scrape() has assigned the parsed table
InitColumns ==
    /\ games = NoGames
    /\ completed_games = NoGames
    /\ standings = NoStandings
    /\ team_metrics = <<>>
    /\ num_divisions = DefaultNumDivisions
    /\ names_arg = NoNames
    /\ pc = "done"
    /\ division_names = <<>>
    /\ teams = <<>>
    /\ divisions = NewDict(<<>>, <<>>)
    /\ division_strengths = [n \in {} |-> 0]
    /\ division_order = <<>>
    /\ forward = TRUE
    /\ result_df = <<>>
    /\ outcome = "running"
    /\ calls = 0
    /\ prev = [outcome |-> "none"]
    /\ games_df = NoTable
    /\ metrics = <<>>
    /\ filter_args = NoFilter
    /\ filtered = NoTable
    /\ changes = NoChanges
    /\ compare_outcome = "none"
    /\ mapping_file = NoFile
    /\ team_mapping = EmptyDict
    /\ page = NoPage
    /\ data \in StatTables
    /\ scrape_outcome = "none"
    /\ scraper = "HockeyStatsScraper"
    /\ table = NoHtml
    /\ ppc = "columns"
    /\ th = 1
    /\ headers = data.columns
    /\ header_text = <<>>
    /\ original_header = <<>>
    /\ counter = 1
    /\ rows_data = data.rows
    /\ written = {}
    /\ call = [method |-> "scrape", outcome |-> "running"]

NextColumns == AddColumns

SpecColumns == InitColumns /\ [][NextColumns]_vars

\* A scraper of one of the three classes, built without mapping file,
\* before its first call
InitExports ==
    /\ games = NoGames
    /\ completed_games = NoGames
    /\ standings = NoStandings
    /\ team_metrics = <<>>
    /\ num_divisions = DefaultNumDivisions
    /\ names_arg = NoNames
    /\ pc = "done"
    /\ division_names = <<>>
    /\ teams = <<>>
    /\ divisions = NewDict(<<>>, <<>>)
    /\ division_strengths = [n \in {} |-> 0]
    /\ division_order = <<>>
    /\ forward = TRUE
    /\ result_df = <<>>
    /\ outcome = "running"
    /\ calls = 0
    /\ prev = [outcome |-> "none"]
    /\ games_df = NoTable
    /\ metrics = <<>>
    /\ filter_args = NoFilter
    /\ filtered = NoTable
    /\ changes = NoChanges
    /\ compare_outcome = "none"
    /\ mapping_file = NoFile
    /\ team_mapping = EmptyDict
    /\ page = NoPage
    /\ data = NoData
    /\ scrape_outcome = "none"
    /\ scraper \in {"HockeyStatsScraper", "GamesScraper",
                    "TeamStandingsScraper"}
    /\ table = NoHtml
    /\ ppc = "idle"
    /\ th = 1
    /\ headers = <<>>
    /\ header_text = <<>>
    /\ original_header = <<>>
    /\ counter = 1
    /\ rows_data = <<>>
    /\ written = {}
    /\ call = NoCall

\* Any sequence of scrape() and export calls on the scraper
NextExports ==
    ScrapeCall \/ ScrapeGamesCall \/ NextHeader \/ RenameHeader
        \/ AppendHeader \/ ExtractRows \/ AssignData \/ AddColumns
        \/ ExportCall

SpecExports == InitExports /\ [][NextExports]_vars

NextFilter == PrepareData \/ FilterGames \/ CalculateFiltered

SpecFilter == InitFilter /\ [][NextFilter]_vars

\* One call runs to its end: the interpreter never stops between two steps
FairSpec == InitSuggest(MaxFairTeams) /\ [][Next]_vars /\ WF_vars(Next)

\* lines 165-225 called again on the same analyzer with the same arguments
CallAgain ==
    /\ pc = "done"
    /\ UNCHANGED <<metricsVars, scraperVars>>
    /\ calls = 0
    /\ prev' = [outcome |-> outcome, result_df |-> result_df,
                division_strengths |-> division_strengths]
    /\ calls' = calls + 1
    /\ result_df' = <<>>
    /\ outcome' = "running"
    /\ pc' = "suggest"
    /\ UNCHANGED <<games, completed_games, standings, team_metrics,
                   num_divisions, names_arg, division_names, teams, divisions,
                   division_strengths, division_order, forward>>

\* lines 165-225 called with the same arguments on an analyzer built with
\* another standings file (lines 22-23)
CallOther ==
    /\ pc = "done"
    /\ calls = 0
    /\ standings' \in {NoStandings, OneStanding, NoDivisionStanding}
                        \ {standings}
    /\ prev' = [outcome |-> outcome, result_df |-> result_df,
                division_strengths |-> division_strengths]
    /\ calls' = calls + 1
    /\ result_df' = <<>>
    /\ outcome' = "running"
    /\ changes' = NoChanges
    /\ compare_outcome' = "none"
    /\ pc' = "suggest"
    /\ UNCHANGED <<games_df, metrics, filter_args, filtered, scraperVars>>
    /\ UNCHANGED <<games, completed_games, team_metrics, num_divisions,
                   names_arg, division_names, teams, divisions,
                   division_strengths, division_order, forward>>

\* lines 165-225 called again with the same table and the same supplied
\* labels, and another num_divisions
CallOtherN ==
    /\ pc = "done"
    /\ calls = 0
    /\ ~names_arg.is_none
    /\ num_divisions' \in (0..(MaxLabels + 1)) \ {num_divisions}
    /\ prev' = [outcome |-> outcome, result_df |-> result_df,
                division_strengths |-> division_strengths]
    /\ calls' = calls + 1
    /\ result_df' = <<>>
    /\ outcome' = "running"
    /\ pc' = "suggest"
    /\ UNCHANGED <<metricsVars, scraperVars>>
    /\ UNCHANGED <<games, completed_games, standings, team_metrics, names_arg,
                   division_names, teams, divisions, division_strengths,
                   division_order, forward>>

\* A call of suggest_divisions with supplied labels
MaxLabelTeams == 3

InitLabels ==
    /\ games = NoGames
    /\ completed_games = NoGames
    /\ (standings = NoStandings \/ standings = OneStanding)
    /\ team_metrics \in UNION {TeamTables(k) : k \in 0..MaxLabelTeams}
    /\ names_arg \in [is_none : {FALSE}, value : LabelLists]
    /\ num_divisions \in 0..(MaxLabels + 1)
    /\ pc = "suggest"
    /\ InitLocals

NextLabels == Next \/ CallOtherN

SpecLabels == InitLabels /\ [][NextLabels]_vars

\* main() run again on the same games file: lines 337 and 349 once more
RunAgain ==
    /\ pc = "done"
    /\ calls = 0
    /\ prev' = [outcome |-> outcome, result_df |-> result_df,
                division_strengths |-> division_strengths]
    /\ calls' = calls + 1
    /\ result_df' = <<>>
    /\ outcome' = "running"
    /\ pc' = "metrics"
    /\ UNCHANGED <<metricsVars, scraperVars>>
    /\ UNCHANGED <<games, completed_games, standings, team_metrics,
                   num_divisions, names_arg, division_names, teams, divisions,
                   division_strengths, division_order, forward>>

NextRerun == PrepareData \/ CalculateTeamMetrics \/ Next \/ RunAgain

SpecRerun == InitMetrics /\ [][NextRerun]_vars

\* The caller goes on with the same analyzer: after calculate_team_metrics
\* or after suggest_divisions and compare_divisions, another round of calls
MaxCalls == 1

AnotherCall ==
    /\ pc \in {"suggest", "done"}
    /\ calls < MaxCalls
    /\ prev' = [outcome |-> outcome, games_df |-> games_df,
                metrics |-> IF outcome = "KeyError" THEN {}
                            ELSE SeqRange(team_metrics),
                compared |-> compare_outcome # "none"]
    /\ calls' = calls + 1
    /\ filter_args' = NoFilter
    /\ filtered' = NoTable
    /\ games_df' = NoTable
    /\ metrics' = <<>>
    /\ team_metrics' = <<>>
    /\ changes' = NoChanges
    /\ compare_outcome' = "none"
    /\ result_df' = <<>>
    /\ outcome' = "running"
    /\ pc' = "metrics"
    /\ UNCHANGED scraperVars
    /\ UNCHANGED <<games, completed_games, standings, num_divisions,
                   names_arg, division_names, teams, divisions,
                   division_strengths, division_order, forward>>

\* filter_games(start_date, end_date): the calls that give the two bounds by
\* their first names and exclude no date
FilterByDates ==
    /\ FilterGames
    /\ filter_args'.min_date = 0
    /\ filter_args'.max_date = 0
    /\ filter_args'.exclude_dates = {}

\* The games files of the call sequences: two games on two dates, the
\* second one drawn or not played yet
CallGameTables ==
    {[has_name_cols |-> FALSE,
      rows |-> <<[AwayTeam |-> 1, HomeTeam |-> 2, AwayTeamName |-> NaN,
                  HomeTeamName |-> NaN, AwayScore |-> 1, HomeScore |-> 0,
                  Date |-> 1],
                 [AwayTeam |-> 2, HomeTeam |-> 1, AwayTeamName |-> NaN,
                  HomeTeamName |-> NaN, AwayScore |-> sc, HomeScore |-> sc,
                  Date |-> 2]>>] : sc \in {0, NoScore}}

\* An analyzer built from a games file, with or without standings file
InitCalls ==
    /\ games \in CallGameTables
    /\ completed_games = NoGames
    /\ (standings = NoStandings \/ standings = OneStanding)
    /\ team_metrics = <<>>
    /\ num_divisions = DefaultNumDivisions
    /\ names_arg = NoNames
    /\ pc = "prepare"
    /\ InitLocals

NextCalls ==
    PrepareData \/ FilterByDates \/ CalculateTeamMetricsOn \/ CalculateFiltered
        \/ Next \/ CompareDivisions \/ AnotherCall

SpecCalls == InitCalls /\ [][NextCalls]_vars

NextRepeat == Next \/ CallAgain

NextStandings == Next \/ CompareDivisions \/ CallOther

SpecStandings == InitStandings /\ [][NextStandings]_vars

SpecRepeat == InitSuggest(MaxRepeatTeams) /\ [][NextRepeat]_vars

------------------------------------------------------------------------------
(* What the claims speak of *)

Returned == pc = "done" /\ outcome = "returned"

InputTeams == {team_metrics[k].Team : k \in 1..Len(team_metrics)}

\* The rows of the returned table that hold team t
RowsOfTeam(t) == {i \in 1..Len(result_df) : result_df[i].Team = t}

\* The rows of the returned table whose Suggested Division is d
MembersOf(d) == SelectSeq(result_df, LAMBDA r : r.SuggestedDivision = d)

UsedDivisions == {result_df[i].SuggestedDivision : i \in 1..Len(result_df)}

Distinct(s) == \A i, j \in 1..Len(s) : s[i] = s[j] => i = j

RECURSIVE SumStrength(_)
SumStrength(rows) ==
    IF rows = <<>> THEN 0 ELSE rows[1].Strength + SumStrength(Tail(rows))

RECURSIVE SumOver(_, _)
SumOver(f, S) ==
    IF S = {} THEN 0
    ELSE LET x == CHOOSE y \in S : TRUE IN f[x] + SumOver(f, S \ {x})

\* The label the claim gives the team at 0-based rank i, with N labels L
SerpentineLabel(L, i) ==
    LET N == Len(L)
    IN IF (i \div N) % 2 = 0 THEN L[(i % N) + 1] ELSE L[N - (i % N)]

\* The division of the team of input row k (the row is unique, see C1)
DivisionOfRow(k) ==
    result_df[CHOOSE i \in 1..Len(result_df) :
                 result_df[i].Team = team_metrics[k].Team].SuggestedDivision

\* The team given the i-th entry of the serpentine sequence: the n-th member
\* of the division that entry names, n the number of times the sequence has
\* named that division up to i
EntryRow(i) ==
    LET d == division_order[i]
        n == Cardinality({j \in 1..i : division_order[j] = d})
    IN MembersOf(d)[n]

SortedDesc(tm) ==
    \A i \in 1..(Len(tm) - 1) : tm[i].Strength >= tm[i + 1].Strength

------------------------------------------------------------------------------
(* C1: every input team is in exactly one row of the returned assignment,   *)
(* its division is one of the labels in use, and the teams of the returned  *)
(* assignment are exactly the input teams.                                  *)
C1_Partition ==
    Returned =>
        /\ \A t \in InputTeams : Cardinality(RowsOfTeam(t)) = 1
        /\ {result_df[i].Team : i \in 1..Len(result_df)} = InputTeams
        /\ Len(result_df) = Len(team_metrics)
        /\ UsedDivisions \subseteq SeqRange(division_names)

C1_Witness ==
    /\ Returned
    /\ Len(team_metrics) = 5
    /\ Cardinality(UsedDivisions) = 2
    /\ ~names_arg.is_none

(* C2: with N labels L in use, the team at 0-based rank i (input row i+1)   *)
(* gets L[i mod N] on even passes and L[N-1-(i mod N)] on odd passes; ten   *)
(* teams over A..E get A,B,C,D,E,E,D,C,B,A.                                 *)
C2_Serpentine ==
    Returned =>
        /\ \A k \in 1..Len(team_metrics) :
              /\ RowsOfTeam(team_metrics[k].Team) # {}
              /\ DivisionOfRow(k) = SerpentineLabel(division_names, k - 1)
        /\ (Len(team_metrics) = 10
                /\ division_names = <<"A", "B", "C", "D", "E">>)
             => [k \in 1..10 |-> DivisionOfRow(k)]
                  = <<"A", "B", "C", "D", "E", "E", "D", "C", "B", "A">>

C2_Witness ==
    /\ Returned
    /\ Len(team_metrics) = 10
    /\ division_names = <<"A", "B", "C", "D", "E">>
    /\ DivisionOfRow(5) = "E" /\ DivisionOfRow(6) = "E"

(* C3: with N >= 1 pairwise distinct labels in use and at least N teams the *)
(* call returns and every division holds floor(count/N) or ceil(count/N)    *)
(* teams; seven teams over A,B,C give A=3, B=2, C=2.                        *)
C3_SizeBalance ==
    LET N == Len(division_names)
        count == Len(team_metrics)
    IN (pc = "done" /\ N >= 1 /\ Distinct(division_names) /\ count >= N) =>
          /\ outcome = "returned"
          /\ \A d \in SeqRange(division_names) :
                \/ Len(MembersOf(d)) = count \div N
                \/ Len(MembersOf(d)) = (count + N - 1) \div N
          /\ (count = 7 /\ division_names = <<"A", "B", "C">>) =>
                /\ Len(MembersOf("A")) = 3
                /\ Len(MembersOf("B")) = 2
                /\ Len(MembersOf("C")) = 2

C3_Witness ==
    /\ Returned
    /\ Len(team_metrics) = 7
    /\ division_names = <<"A", "B", "C">>
    /\ Len(MembersOf("A")) = 3

(* C4 as claimed: whatever the order of the input rows, the team given the  *)
(* i-th entry of the serpentine sequence is at least as strong as the team  *)
(* given the next entry.                                                    *)
C4_SortsByStrength ==
    Returned =>
        \A i \in 1..(Len(team_metrics) - 1) :
            EntryRow(i).Strength >= EntryRow(i + 1).Strength

(* C4 amended: the team given the i-th entry of the serpentine sequence is  *)
(* the i-th row of the input, so the strengths do not increase along the    *)
(* sequence when the input rows are in non-increasing Strength order.       *)
C4_KeepsInputOrder ==
    Returned =>
        /\ \A i \in 1..Len(team_metrics) :
              /\ EntryRow(i).Team = team_metrics[i].Team
              /\ EntryRow(i).Strength = team_metrics[i].Strength
        /\ SortedDesc(team_metrics) =>
              \A i \in 1..(Len(team_metrics) - 1) :
                  EntryRow(i).Strength >= EntryRow(i + 1).Strength

C4_Witness ==
    /\ Returned
    /\ Len(team_metrics) = 4
    /\ SortedDesc(team_metrics)
    /\ team_metrics[1].Strength > team_metrics[4].Strength
    /\ Len(division_names) = 3

(* C5: a call with num_divisions <= 0 ends with InvalidConfiguration.       *)
C5_RejectsNonPositive ==
    (pc = "done" /\ num_divisions <= 0) => outcome = "InvalidConfiguration"

(* C6: a call whose num_divisions exceeds the length of the label list in   *)
(* use ends with InvalidConfiguration.                                      *)
C6_RejectsTooMany ==
    (pc = "done" /\ num_divisions > Len(division_names))
        => outcome = "InvalidConfiguration"

(* C7: every call of suggest_divisions ends (returns or raises).            *)
C7_Terminates == <>(pc = "done")

(* C8: the returned totals have the labels in use as keys, each total is    *)
(* the sum of the Strength of the rows of that Suggested Division, and the  *)
(* totals add up to the total Strength of the input.                        *)
C8_DivisionTotals ==
    Returned =>
        /\ DOMAIN division_strengths = SeqRange(division_names)
        /\ \A d \in DOMAIN division_strengths :
              division_strengths[d] = SumStrength(MembersOf(d))
        /\ SumOver(division_strengths, DOMAIN division_strengths)
              = SumStrength(team_metrics)

C8_Witness ==
    /\ Returned
    /\ \E d \in DOMAIN division_strengths :
          /\ Len(MembersOf(d)) = 2
          /\ division_strengths[d] = 5050 - 125
    /\ \E d \in DOMAIN division_strengths : Len(MembersOf(d)) = 1

C9_InsufficientData ==
    (pc = "done" /\ completed_games.rows = <<>>)
        => outcome = "InsufficientData"

------------------------------------------------------------------------------
(* Division labels *)

Alphabet == <<"A", "B", "C", "D", "E", "F", "G", "H", "I", "J", "K", "L", "M",
              "N", "O", "P", "Q", "R", "S", "T", "U", "V", "W", "X", "Y", "Z">>

(* C18: a returned call with supplied labels has exactly the supplied      *)
(* labels as keys of the division totals and only supplied labels as       *)
(* Suggested Division; a returned call without supplied labels and with    *)
(* num_divisions = N >= 1 has the first N letters of the alphabet as keys  *)
(* of the division totals and only those as Suggested Division.            *)
C18_DivisionLabels ==
    Returned =>
        LET expected == IF names_arg.is_none
                        THEN SeqRange(SubSeq(Alphabet, 1, num_divisions))
                        ELSE SeqRange(names_arg.value)
        IN (names_arg.is_none => num_divisions >= 1) =>
              /\ DOMAIN division_strengths = expected
              /\ \A i \in 1..Len(result_df) :
                    result_df[i].SuggestedDivision \in expected

------------------------------------------------------------------------------
(* Team metrics *)

\* calculate_team_metrics has returned its table
MetricsReturned == pc = "suggest"

\* The place of a team in the list handed to the sort
FedAt(team) == CHOOSE k \in 1..Len(metrics) : metrics[k].Team = team

(* C11: the table calculate_team_metrics() returns is in non-increasing     *)
(* Strength order, and two teams of equal Strength are in the order in      *)
(* which the list handed to the sort held them.                             *)
C11_SortedStable ==
    (MetricsReturned /\ games_df.is_none) =>
        /\ SortedDesc(team_metrics)
        /\ \A i, j \in 1..Len(team_metrics) :
              (i < j /\ team_metrics[i].Strength = team_metrics[j].Strength)
                 => FedAt(team_metrics[i].Team) < FedAt(team_metrics[j].Team)

\* The table the last call of calculate_team_metrics worked on
UsedTable == TableOf(games_df)

\* A score that is present and numeric
IsNumeric(x) == x >= 0

\* The score of team t and of its opponent in row r of the table in use
OwnScore(r, t) ==
    IF (IF UsedTable.has_name_cols THEN r.AwayTeamName ELSE r.AwayTeam) = t
    THEN r.AwayScore ELSE r.HomeScore

OtherScore(r, t) ==
    IF (IF UsedTable.has_name_cols THEN r.AwayTeamName ELSE r.AwayTeam) = t
    THEN r.HomeScore ELSE r.AwayScore

\* The rows of the table in use in which team t is a side
GamesOf(t) ==
    {i \in 1..Len(UsedTable.rows) :
        LET r == UsedTable.rows[i]
        IN IF UsedTable.has_name_cols
           THEN t \in {r.AwayTeamName, r.HomeTeamName}
           ELSE t \in {r.AwayTeam, r.HomeTeam}}

\* Those of them with both scores present and numeric
QualifyingGamesOf(t) ==
    {i \in GamesOf(t) : /\ IsNumeric(UsedTable.rows[i].AwayScore)
                        /\ IsNumeric(UsedTable.rows[i].HomeScore)}

GamesWon(t) ==
    {i \in QualifyingGamesOf(t) :
        OwnScore(UsedTable.rows[i], t) > OtherScore(UsedTable.rows[i], t)}

GamesLost(t) ==
    {i \in QualifyingGamesOf(t) :
        OwnScore(UsedTable.rows[i], t) < OtherScore(UsedTable.rows[i], t)}

GamesTied(t) ==
    {i \in QualifyingGamesOf(t) :
        OwnScore(UsedTable.rows[i], t) = OtherScore(UsedTable.rows[i], t)}

(* C12: whatever table calculate_team_metrics is given, the row of a team   *)
(* counts only the games of the team with both scores present and numeric:  *)
(* GP, W + L + T and T are the numbers of such games and of the drawn ones  *)
(* among them, Points is twice the won plus the drawn ones, GF and GA are   *)
(* the goals of the team and of its opponents in them.                      *)
C12_OnlyScoredGamesCount ==
    MetricsReturned =>
        \A k \in 1..Len(team_metrics) :
            LET m == team_metrics[k]
                Q == QualifyingGamesOf(m.Team)
            IN /\ m.GP = Cardinality(Q)
               /\ m.W + m.L + m.T = Cardinality(Q)
               /\ m.T = Cardinality(GamesTied(m.Team))
               /\ m.Points = 2 * Cardinality(GamesWon(m.Team))
                               + Cardinality(GamesTied(m.Team))
               /\ m.GF = SumOver([i \in Q |->
                                    OwnScore(UsedTable.rows[i], m.Team)], Q)
               /\ m.GA = SumOver([i \in Q |->
                                    OtherScore(UsedTable.rows[i], m.Team)], Q)

(* C13: in every row of the table calculate_team_metrics returns, GP >= 1,  *)
(* W, L and T are not negative, W + L + T = GP, Points = 2 W + T and        *)
(* GD = GF - GA; W is the number of games of the team in which its score is *)
(* strictly higher, L the number in which the other score is strictly       *)
(* higher, every game with equal scores is in T, and T is exactly the       *)
(* number of those when every game of the team has both scores.             *)
C13_MetricIdentities ==
    MetricsReturned =>
        \A k \in 1..Len(team_metrics) :
            LET m == team_metrics[k]
            IN /\ m.GP >= 1 /\ m.W >= 0 /\ m.L >= 0 /\ m.T >= 0
               /\ m.W + m.L + m.T = m.GP
               /\ m.Points = 2 * m.W + 1 * m.T
               /\ m.GD = m.GF - m.GA
               /\ m.W = Cardinality(GamesWon(m.Team))
               /\ m.L = Cardinality(GamesLost(m.Team))
               /\ m.T >= Cardinality(GamesTied(m.Team))
               /\ QualifyingGamesOf(m.Team) = GamesOf(m.Team)
                     => m.T = Cardinality(GamesTied(m.Team))

\* A team has won a game, lost a game and drawn a game
C13_Witness ==
    /\ MetricsReturned
    /\ games_df.is_none
    /\ \E k \in 1..Len(team_metrics) :
          /\ team_metrics[k].W = 1
          /\ team_metrics[k].L = 1
          /\ team_metrics[k].T = 1
          /\ team_metrics[k].GF = 2

(* C14 as stated: the Strength of every returned row is exactly             *)
(* 100 * (W / GP) + (GF - GA) / GP  (Strength is held in hundredths).       *)
C14_StrengthExact ==
    MetricsReturned =>
        \A k \in 1..Len(team_metrics) :
            LET m == team_metrics[k]
            IN m.Strength * m.GP = (100 * m.W + (m.GF - m.GA)) * 100

(* C14: the Strength of every returned row is 100 * (W / GP) +              *)
(* (GF - GA) / GP rounded to two decimal places: it is a whole number of    *)
(* hundredths and differs from that value by half a hundredth at most.      *)
C14_StrengthRounded ==
    MetricsReturned =>
        \A k \in 1..Len(team_metrics) :
            LET m == team_metrics[k]
                d == m.Strength * m.GP - (100 * m.W + (m.GF - m.GA)) * 100
            IN 2 * d <= m.GP /\ 2 * (0 - d) <= m.GP

\* A team whose strength is not a whole number of hundredths: one win and
\* two draws in three games, 100/3 + 1/3
C14_Witness ==
    /\ MetricsReturned
    /\ \E k \in 1..Len(team_metrics) :
          /\ team_metrics[k].GP = 3
          /\ team_metrics[k].W = 1
          /\ team_metrics[k].GD = 1
          /\ team_metrics[k].Strength = 3367

------------------------------------------------------------------------------
(* The standings table *)

\* The team and the suggested division of every row, in order
Assignment(df) ==
    [i \in 1..Len(df) |-> <<df[i].Team, df[i].SuggestedDivision>>]

(* C15: a call of suggest_divisions ends in the same way, with the same     *)
(* Suggested Division of each team and the same division totals, or with    *)
(* the same error, on an analyzer with and without a standings table (or    *)
(* with another one), for every team table, the empty one included.         *)
C15_SameWithoutStandings ==
    (pc = "done" /\ calls = 1) =>
        /\ outcome = prev.outcome
        /\ Assignment(result_df) = Assignment(prev.result_df)
        /\ division_strengths = prev.division_strengths

\* No standings table is loaded, or it has no Division column
NoComparisonData == standings.is_none \/ ~standings.has_division

(* C16: with no standings table, or one without a Division column, a call   *)
(* of suggest_divisions that ends returns a table without the column        *)
(* Current Division, and compare_divisions on that table returns None and   *)
(* raises nothing.                                                          *)
C16_MissingStandingsNotFatal ==
    NoComparisonData =>
        /\ pc = "done" =>
              /\ outcome = "returned"
              /\ "CurrentDivision" \notin Columns(result_df)
        /\ compare_outcome # "none" =>
              /\ compare_outcome = "returned"
              /\ changes.is_none

\* compare_divisions has returned None for an assignment of two teams made
\* with a standings table that has no Division column
C16_Witness ==
    /\ ~standings.is_none
    /\ ~standings.has_division
    /\ Len(result_df) = 2
    /\ compare_outcome = "returned"
    /\ changes.is_none

------------------------------------------------------------------------------
(* filter_games *)

\* The bound in force: the first argument when given, else the second
BoundGiven(first, second) == IF first # 0 THEN first ELSE second

\* The game of row r passes the filter called with the arguments a
KeptBy(a, r) ==
    LET lo == BoundGiven(a.start_date, a.min_date)
        hi == BoundGiven(a.end_date, a.max_date)
    IN /\ lo # 0 => (r.Date # NaN /\ r.Date >= lo)
       /\ hi # 0 => (r.Date # NaN /\ r.Date <= hi)
       /\ r.Date \notin a.exclude_dates

(* C19: a call of filter_games returns exactly the completed games, in      *)
(* their order, whose Date is >= the start bound when one is given, <= the  *)
(* end bound when one is given and not in exclude_dates; start_date goes    *)
(* before min_date and end_date before max_date; with no argument all       *)
(* completed games are returned.                                            *)
C19_FilterGames ==
    filter_args.called =>
        /\ filter_args.outcome = "returned"
        /\ filtered.rows = SelectSeq(completed_games.rows,
                                     LAMBDA r : KeptBy(filter_args, r))

------------------------------------------------------------------------------
(* The games scraper *)

\* The rows of the games table after its header
PageBody == PyTail(page.rows)

\* The places of the rows of 8 cells among them
GamePlaces == {i \in 1..Len(PageBody) : PageBody[i].cells = 8}

\* The place of the k-th row of 8 cells
GamePlace(k) ==
    CHOOSE i \in GamePlaces : Cardinality({j \in GamePlaces : j <= i}) = k

\* The text of the last row of 1 cell before place i, '' when there is none
DateBefore(i) ==
    LET D == {j \in 1..(i - 1) : PageBody[j].cells = 1}
    IN IF D = {} THEN EmptyText
       ELSE PageBody[CHOOSE j \in D : \A m \in D : m <= j].text

\* scrape() has returned the table
Scraped == scrape_outcome = "returned"

\* The mapping file is absent or cannot be read
MappingMissing == mapping_file.state \in {"absent", "unreadable"}

\* The source names of the teams in the games with both scores numeric
ScoredSourceNames ==
    UNION {{data.rows[i].AwayTeam, data.rows[i].HomeTeam} :
             i \in {j \in 1..Len(data.rows) :
                      /\ data.rows[j].AwayScore >= 0
                      /\ data.rows[j].HomeScore >= 0}}

(* C17: with the mapping file absent or unreadable the scraper is built     *)
(* with an empty mapping; scrape() fails only for a page that cannot be     *)
(* fetched or has no table or no game, and otherwise returns the games with *)
(* the team texts of the page and without name columns; and                 *)
(* calculate_team_metrics on the exported file has one row for every        *)
(* non-empty source name of a scored game, and no other.                    *)
C17_MissingMapping ==
    MappingMissing =>
        /\ pc # "construct" => team_mapping = EmptyDict
        /\ scrape_outcome \notin {"none", "returned"} =>
              (~page.fetched \/ ~page.has_table \/ GamePlaces = {})
        /\ Scraped =>
              /\ ~data.has_name_cols
              /\ \A k \in 1..Len(data.rows) :
                    /\ DOMAIN data.rows[k] =
                          {"Date", "AwayTeam", "AwayScore", "HomeTeam",
                           "HomeScore"}
                    /\ data.rows[k].AwayTeam = PageBody[GamePlace(k)].away
                    /\ data.rows[k].HomeTeam = PageBody[GamePlace(k)].home
        /\ MetricsReturned =>
              {team_metrics[k].Team : k \in 1..Len(team_metrics)}
                 = {Code(t) : t \in ScoredSourceNames \ {<<>>}}

\* The metrics of two teams, from a scrape with an unreadable mapping file
C17_Witness ==
    /\ mapping_file.state = "unreadable"
    /\ Scraped
    /\ MetricsReturned
    /\ Len(team_metrics) = 2

(* C20: parse_games gives one record for every row of 8 cells after the     *)
(* header, in the order of the page, with the teams and scores of the row   *)
(* and, as Date, the text of the last row of 1 cell before it, '' when      *)
(* there is none; other rows give no record and change no date; and a page  *)
(* without table or without row of 8 cells raises ValueError: the table     *)
(* returned is never empty.                                                 *)
C20_DateCarryOver ==
    (scrape_outcome # "none" /\ page.fetched) =>
        /\ Scraped <=> (page.has_table /\ GamePlaces # {})
        /\ ~Scraped => (scrape_outcome = "ValueError" /\ data.is_none)
        /\ Scraped =>
              /\ Len(data.rows) = Cardinality(GamePlaces)
              /\ Len(data.rows) >= 1
              /\ \A k \in 1..Len(data.rows) :
                    LET i == GamePlace(k)
                    IN /\ data.rows[k].Date = DateBefore(i)
                       /\ data.rows[k].AwayTeam = PageBody[i].away
                       /\ data.rows[k].HomeTeam = PageBody[i].home
                       /\ data.rows[k].AwayScore = PageBody[i].away_score
                       /\ data.rows[k].HomeScore = PageBody[i].home_score

\* A game after a date header and a row of 3 cells carries the date
C20_Witness ==
    /\ Scraped
    /\ Len(PageBody) = 3
    /\ PageBody[1].cells = 1 /\ PageBody[1].text = 2
    /\ PageBody[2].cells = 3
    /\ PageBody[3].cells = 8
    /\ Len(data.rows) = 1
    /\ data.rows[1].Date = 2

------------------------------------------------------------------------------
(* Supplied labels and num_divisions *)

(* C30: with supplied labels, a call with another num_divisions ends as the *)
(* first did, with the same assignment table and the same division totals,  *)
(* and the totals have every supplied label as key.                         *)
C30_NumDivisionsIgnored ==
    (pc = "done" /\ ~names_arg.is_none) =>
        /\ DOMAIN division_strengths = SeqRange(names_arg.value)
        /\ calls = 1 =>
              prev = [outcome |-> outcome, result_df |-> result_df,
                      division_strengths |-> division_strengths]

\* Three teams in two supplied divisions, asked for with num_divisions = 1
\* after another value
C30_Witness ==
    /\ pc = "done" /\ calls = 1
    /\ outcome = "returned"
    /\ ~names_arg.is_none
    /\ num_divisions = 1
    /\ Len(result_df) = 3
    /\ Cardinality(UsedDivisions) = 2

------------------------------------------------------------------------------
(* The gap between the division totals *)

\* The largest and the smallest of the returned totals
MaxTotal ==
    CHOOSE x \in {division_strengths[d] : d \in DOMAIN division_strengths} :
        \A d \in DOMAIN division_strengths : division_strengths[d] <= x

MinTotal ==
    CHOOSE x \in {division_strengths[d] : d \in DOMAIN division_strengths} :
        \A d \in DOMAIN division_strengths : division_strengths[d] >= x

(* C26: with N >= 1 pairwise distinct labels in use and a table in          *)
(* non-increasing Strength order whose number of teams is a positive        *)
(* multiple of 2 N, the largest returned total exceeds the smallest by at   *)
(* most the Strength of the first team minus the Strength of the last.      *)
C26_GapBound ==
    LET N == Len(division_names)
        count == Len(team_metrics)
    IN (/\ Returned /\ N >= 1 /\ Distinct(division_names)
        /\ SortedDesc(team_metrics)
        /\ count >= 1 /\ count % (2 * N) = 0) =>
          MaxTotal - MinTotal
             <= team_metrics[1].Strength - team_metrics[count].Strength

\* Four teams, the first stronger than the others, in two divisions: the gap
\* is the whole difference between the first and the last team
C26_Witness ==
    /\ Returned
    /\ Len(division_names) = 2 /\ Distinct(division_names)
    /\ Len(team_metrics) = 4
    /\ SortedDesc(team_metrics)
    /\ team_metrics[1].Strength > team_metrics[2].Strength
    /\ MaxTotal - MinTotal = team_metrics[1].Strength - team_metrics[4].Strength

------------------------------------------------------------------------------
(* The changes compare_divisions reports *)

\* The rows of the assignment whose two labels differ; the Current Division
\* of a team without entry in the standings table is missing ("NaN")
RowsThatChange ==
    {i \in 1..Len(result_df) :
        result_df[i].CurrentDivision # result_df[i].SuggestedDivision}

\* The place in the assignment of the k-th row that changes
ChangePlace(k) ==
    CHOOSE i \in RowsThatChange :
        Cardinality({j \in RowsThatChange : j <= i}) = k

(* C29: on an assignment with the columns Current Division, Win % and       *)
(* Points, compare_divisions returns, in their order, exactly the rows      *)
(* whose Current Division differs from the Suggested Division: a team       *)
(* without entry in the standings table is among them, a team whose two     *)
(* labels are equal is not.                                                 *)
C29_ExactlyChangedRows ==
    (compare_outcome # "none" /\ ChangeColumns \subseteq Columns(result_df)) =>
        /\ compare_outcome = "returned"
        /\ ~changes.is_none
        /\ Len(changes.rows) = Cardinality(RowsThatChange)
        /\ \A k \in 1..Len(changes.rows) :
              \A c \in ChangeColumns :
                 changes.rows[k][c] = result_df[ChangePlace(k)][c]
        /\ \A i \in 1..Len(result_df) :
              /\ result_df[i].CurrentDivision = "NaN" =>
                    \E k \in 1..Len(changes.rows) :
                       changes.rows[k].Team = result_df[i].Team
              /\ result_df[i].CurrentDivision = result_df[i].SuggestedDivision =>
                    \A k \in 1..Len(changes.rows) :
                       changes.rows[k].Team # result_df[i].Team

\* Two teams: the one of the standings table stays in its division, the
\* other has no entry and is the one change
C29_Witness ==
    /\ compare_outcome = "returned"
    /\ Len(result_df) = 2
    /\ Len(changes.rows) = 1
    /\ changes.rows[1].CurrentDivision = "NaN"
    /\ \E i \in 1..2 :
          result_df[i].CurrentDivision = result_df[i].SuggestedDivision

------------------------------------------------------------------------------
(* Conservation across the teams *)

\* The rows of the table in use with both scores present and numeric
QualifyingGames ==
    {i \in 1..Len(UsedTable.rows) :
        /\ IsNumeric(UsedTable.rows[i].AwayScore)
        /\ IsNumeric(UsedTable.rows[i].HomeScore)}

\* The two team names of row i of the table in use
NamesOfGame(i) ==
    IF UsedTable.has_name_cols
    THEN {UsedTable.rows[i].AwayTeamName, UsedTable.rows[i].HomeTeamName}
    ELSE {UsedTable.rows[i].AwayTeam, UsedTable.rows[i].HomeTeam}

\* The sum of a column of the returned table
RECURSIVE SumColumn(_, _)
SumColumn(rows, col) ==
    IF rows = <<>> THEN 0 ELSE rows[1][col] + SumColumn(Tail(rows), col)

(* C27: when every game with both scores has both team names, the returned  *)
(* table has as many wins as losses, as many goals for as against (the goal *)
(* differences add up to 0), twice as many games played as there are games  *)
(* with both scores, and exactly one row for every team name of such a game.*)
C27_Conservation ==
    (MetricsReturned /\ \A i \in QualifyingGames : NaN \notin NamesOfGame(i)) =>
        /\ SumColumn(team_metrics, "W") = SumColumn(team_metrics, "L")
        /\ SumColumn(team_metrics, "GF") = SumColumn(team_metrics, "GA")
        /\ SumColumn(team_metrics, "GD") = 0
        /\ SumColumn(team_metrics, "GP") = 2 * Cardinality(QualifyingGames)
        /\ \A t \in UNION {NamesOfGame(i) : i \in QualifyingGames} :
              Cardinality({k \in 1..Len(team_metrics) :
                             team_metrics[k].Team = t}) = 1

------------------------------------------------------------------------------
(* Two runs on the same game table *)

\* The division of every team of an assignment table
DivisionOfTeams(df) == {<<df[i].Team, df[i].SuggestedDivision>> : i \in 1..Len(df)}

(* C25: two runs of calculate_team_metrics followed by suggest_divisions on *)
(* the same game table end in the same way and give every team the same     *)
(* division, teams of equal Strength included.                              *)
C25_SameDivisionsEveryRun ==
    (pc = "done" /\ calls = 1) =>
        /\ outcome = prev.outcome
        /\ DivisionOfTeams(result_df) = DivisionOfTeams(prev.result_df)

------------------------------------------------------------------------------
(* The stored game data *)

\* calculate_team_metrics has ended, with its table or with KeyError
MetricsEnded == pc = "suggest" \/ (pc = "done" /\ outcome = "KeyError")

\* The call that just ended had the argument of the call of the round
\* before and gives the same rows, or fails in the same way
SameMetricsAgain ==
    (MetricsEnded /\ calls >= 1 /\ prev.games_df = games_df) =>
        IF outcome = "KeyError" THEN prev.outcome = "KeyError"
        ELSE /\ prev.outcome # "KeyError"
             /\ SeqRange(team_metrics) = prev.metrics

(* C28: no call made after the construction changes completed_games or      *)
(* standings, and calculate_team_metrics called again with the argument of  *)
(* an earlier round gives the same metrics rows.                            *)
C28_StoredDataNotMutated ==
    [][/\ pc # "prepare" =>
             (completed_games' = completed_games /\ standings' = standings)
       /\ pc = "metrics" => SameMetricsAgain']_vars

\* A second round after filter_games, calculate_team_metrics,
\* suggest_divisions and compare_divisions: calculate_team_metrics() called
\* again with no argument as before, after another filter_games call
C28_Witness ==
    /\ calls = 1
    /\ pc = "suggest"
    /\ prev.compared
    /\ prev.games_df = games_df
    /\ filter_args.called /\ filter_args.start_date = 2
    /\ Len(filtered.rows) < Len(completed_games.rows)
    /\ Len(team_metrics) = 2

------------------------------------------------------------------------------
(* split_team_name *)

\* The away team text of the game of the page
AwayText == PageBody[1].away

\* What split_team_name returns for it
AwaySplit == SplitTeamName(AwayText, team_mapping)

\* No abbreviation of the mapping begins the text
NoAbbrevMatches(str) ==
    \A i \in 1..Len(team_mapping.keys) : ~StartsWith(str, team_mapping.keys[i])

LowerCase == SeqRange(CharList) \ UpperCase

\* A capital followed by one small letter or more
TitleCase(str) ==
    /\ Len(str) >= 2
    /\ str[1] \in UpperCase
    /\ \A i \in 2..Len(str) : str[i] \in LowerCase

\* The text is k capitals followed by a title-case name
AbbrevThenName(str, k) ==
    /\ Len(str) > k
    /\ \A i \in 1..k : str[i] \in UpperCase
    /\ TitleCase(SubSeq(str, k + 1, Len(str)))

\* split_team_name made a split: an abbreviation of the mapping or the
\* pattern matched
SplitMade(str) ==
    str # <<>> /\ (~NoAbbrevMatches(str) \/ RegexAbbrevLen(str) > 0)

(* C22: a team text that no abbreviation of the mapping begins and that is  *)
(* 2 or 3 capitals followed by a title-case name is split into these        *)
(* capitals and that name; and whenever a split is made, abbreviation and   *)
(* name together are the text.                                              *)
C22_RegexFallback ==
    Scraped =>
        /\ data.rows[1].AwayTeamAbbrev = AwaySplit[1]
        /\ \A k \in 2..3 :
              (NoAbbrevMatches(AwayText) /\ AbbrevThenName(AwayText, k)) =>
                  /\ AwaySplit[1] = SubSeq(AwayText, 1, k)
                  /\ AwaySplit[2] = SubSeq(AwayText, k + 1, Len(AwayText))
        /\ SplitMade(AwayText) => AwaySplit[1] \o AwaySplit[2] = AwayText

------------------------------------------------------------------------------
(* parse_table and parse_standings *)

\* The header list has no duplicates, and after the parse every kept row has
\* one cell for every header
HeadersAndRowsFit ==
    /\ Distinct(headers)
    /\ ppc = "parsed" =>
          \A i \in 1..Len(rows_data) : Len(rows_data[i]) = Len(headers)

(* C23: for any header texts (empty ones, repeated ones, texts equal to a   *)
(* generated 'name_k' or 'Column_k') the header list never holds a          *)
(* duplicate, the renaming loop ends and the parse reaches its end, and     *)
(* every kept data row has exactly len(headers) cells.                      *)
C23_HeadersAndRows == [](HeadersAndRowsFit) /\ <>(ppc = "parsed")

\* A parse that named an empty header, renamed a text twice because the
\* first new name was taken too, and padded a row
C23_Witness ==
    /\ ppc = "parsed"
    /\ scraper = "HockeyStatsScraper"
    /\ headers = <<<<"GP">>, <<"GP", "_", "1">>, <<"GP", "_", "2">>>>
    /\ \E i \in 1..Len(rows_data) :
          rows_data[i] = <<1, EmptyText, EmptyText>>

------------------------------------------------------------------------------
(* PIM/GP *)

\* scrape() of the stats scraper has returned a table with the column PIM/GP
HasPimPerGp ==
    /\ scraper = "HockeyStatsScraper"
    /\ ppc = "idle"
    /\ call = [method |-> "scrape", outcome |-> "returned"]
    /\ data.has_pim_gp

\* The GP cell of a player row
GpCell(i) == data.rows[i][ColumnNamed(<<"GP">>, data.columns)]

(* C24: after _add_calculated_columns every PIM/GP value is a finite        *)
(* number, and it is 0 whenever the GP cell is 0, empty or not a number,    *)
(* whatever the PIM cell.                                                   *)
C24_PimPerGpFinite ==
    HasPimPerGp =>
        \A i \in 1..Len(data.rows) :
            /\ data.pim_gp[i] \notin {Infinity, NoScore}
            /\ GpCell(i) \in {0, EmptyText, NonNumeric} => data.pim_gp[i] = 0

------------------------------------------------------------------------------
(* Exports and scrape() *)

\* The call that has just ended is an export
ExportEnded(c) ==
    c.method \in {"export_to_csv", "export_to_json", "save_to_database"}

\* The call that has just ended is a scrape() that raised
ScrapeRaised(c) ==
    c.method = "scrape" /\ c.outcome \in {"RequestException", "ValueError"}

(* C21: for each of the three scrapers and any sequence of calls, while     *)
(* data is None nothing is written and an export call raises ValueError;    *)
(* data stops being None only when a scrape() has fetched and parsed its    *)
(* page; and a scrape() whose fetch or parse raises leaves data as it was.  *)
C21_ExportNeedsScrape ==
    [][/\ data.is_none => written' = written
       /\ (data.is_none /\ ExportEnded(call')) => call'.outcome = "ValueError"
       /\ (data.is_none /\ ~data'.is_none) =>
             \/ ppc = "parsed"
             \/ call' = [method |-> "scrape", outcome |-> "returned"]
       /\ ScrapeRaised(call') => data' = data]_vars

\* save_to_database has raised ValueError on a stats scraper whose only
\* scrape() failed for a page without table
C21_Witness ==
    /\ scraper = "HockeyStatsScraper"
    /\ data.is_none
    /\ written = {}
    /\ table.fetched /\ ~table.has_table
    /\ call = [method |-> "save_to_database", outcome |-> "ValueError"]

====
